---- MODULE Spec2Model ----
(***************************************************************************)
(* A model of the rustcore microkernel core: the frame allocator           *)
(* (kernel/src/memory.rs), the interrupt-masking lock (kernel/src/sync.rs),*)
(* the bounded channel and its spin lock (ipc/src/channel.rs), the routing *)
(* table (kernel/src/ipc_bridge.rs), the cooperative scheduler             *)
(* (kernel/src/scheduler.rs) and the boot flow (kernel/tests/boot_smoke.rs *)
(* with services/init/src/lib.rs).                                         *)
(*                                                                         *)
(* Every subsystem has its own specification (SpecFrames, SpecLock, ...)   *)
(* over the one set of variables; a specification leaves the variables of  *)
(* the other subsystems unchanged.  The arrays of the code are functions   *)
(* over 0..n-1, and the operators take the capacity from the array they    *)
(* are given, as the code takes it from the array's type: the exhaustive   *)
(* specifications run them on short arrays (the bounds below), the         *)
(* scenario specifications on arrays of the code's size.                   *)
(***************************************************************************)
EXTENDS Integers, Sequences, FiniteSets, TLC

VARIABLES
    FRAME_ALLOCATOR,    \* memory.rs:139   [map, next_search_idx]
    fr_last,            \* the last memory call and what it returned
    outstanding,        \* frames returned by allocate_frame, not released since
    ever_allocated,     \* frames some allocate_frame call has returned
    net_allocated,      \* allocate_frame calls that returned a frame, minus
                        \* release_frame calls that returned true
    interrupts,         \* the CPU interrupt flag (RFLAGS.IF)
    guards,             \* sync.rs: the live SpinLockGuards, by guard slot
    before,             \* per live guard: the flag just before its lock(), and
                        \* the context (task or handler) that owns the guard
    lk_last,            \* the last lock call: lock or drop, of which guard
    isr,                \* the interrupt handler: idle, or where it stands
    READY_QUEUE,        \* scheduler.rs:82  [slots, head, tail, next_id]
    run_pc,             \* run(): "outside", "loop" (about to pop), "task"
    current,            \* the TCB run() popped and is running, if any
    sched_last,         \* what the last register call returned
    registered,         \* the successful registrations, in order, each with
                        \* the id returned, the entry and the caller
    ran,                \* the tasks run() has invoked, in order
    finished,           \* the TCBs whose entry has returned, as run() left them
    KERNEL_CHANNEL,     \* ipc_bridge.rs:7  Channel [queue, locked]
    call,               \* the channel call the task is in, and where it stands
    ch_last,            \* the last channel call that returned, and its result
    pending,            \* the payloads send has accepted, oldest first, that
                        \* no receive has taken and no reset has discarded
    ROUTING_TABLE,      \* ipc_bridge.rs:8  [init_registered]
    IPC_INTERRUPT_PENDING,  \* ipc_bridge.rs:9
    init_requested,     \* register_init_service was called since ipc_bridge::init
    BOOT_INFO,          \* boot.rs:7  the handoff record recorded, if any
    boot,               \* the boot flow: where it stands, its input and results
    scenario            \* a scripted call sequence: where it stands, its results

frameVars == <<FRAME_ALLOCATOR, fr_last, outstanding, ever_allocated, net_allocated>>
cpuVars == <<interrupts, isr>>
lockVars == <<guards, before, lk_last>>
schedVars == <<READY_QUEUE, run_pc, current, sched_last, registered, ran, finished>>
chanVars == <<KERNEL_CHANNEL, call, ch_last, pending>>
routeVars == <<ROUTING_TABLE, IPC_INTERRUPT_PENDING, init_requested>>
bootVars == <<BOOT_INFO, boot>>

\* What no step of rustcore_entry changes: the records kept of the calls of
\* the other specifications.
bootGhosts ==
    <<fr_last, outstanding, ever_allocated, net_allocated, lockVars, isr,
      sched_last, registered, ran, finished, call, ch_last, pending, scenario>>

vars == <<FRAME_ALLOCATOR, fr_last, outstanding, ever_allocated, net_allocated,
          interrupts, guards, before, lk_last, isr,
          READY_QUEUE, run_pc, current, sched_last, registered, ran, finished,
          KERNEL_CHANNEL, call, ch_last, pending,
          ROUTING_TABLE, IPC_INTERRUPT_PENDING, init_requested,
          BOOT_INFO, boot, scenario>>

\* Option<T> as a set of at most one element.
None == {}
Some(x) == {x}

Min(S) == CHOOSE x \in S : \A y \in S : x <= y

(***************************************************************************)
(* kernel/src/memory.rs                                                    *)
(***************************************************************************)
BOOT_RESERVED_FRAMES == 4
TOTAL_FRAMES == 128

\* Length of the frame map the exhaustive specification explores.
SmallFrames == 6

\* Frame numbers are u16.
U16 == 65536

\* [FrameState; TOTAL_FRAMES]: the number of entries of a map.
FrameCount(map) == Cardinality(DOMAIN map)

\* FrameAllocator::mark_range
mark_range(a, start, end, state) ==
    LET n == FrameCount(a.map)
        clamped_end == IF end < n THEN end ELSE n
        first == IF start < n THEN start ELSE n
    IN  [a EXCEPT !.map = [idx \in DOMAIN a.map |->
            IF first <= idx /\ idx < clamped_end THEN state ELSE a.map[idx]]]

\* FrameAllocator::reserve_range
reserve_range(a, start, len) == mark_range(a, start, start + len, "Reserved")

\* FrameAllocator::reset, on a map of n entries
reset_frames(n, state) ==
    [map |-> [idx \in 0 .. n - 1 |-> state], next_search_idx |-> 0]

\* A mutant of memory::init(None): the low boot frames are left Free.
memory_init_none_unreserved(n) == reset_frames(n, "Free")

\* memory::init(None): everything Free but the low boot frames.
memory_init_none(n) ==
    reserve_range(reset_frames(n, "Free"), 0, BOOT_RESERVED_FRAMES)

\* A mutant of reserved_frames: the Free entries are counted.
reserved_frames_free(a) ==
    Cardinality({idx \in DOMAIN a.map : a.map[idx] = "Free"})

\* FrameAllocator::reserved_frames
reserved_frames(a) ==
    Cardinality({idx \in DOMAIN a.map : a.map[idx] = "Reserved"})

\* The offsets of the scan of allocate_frame that find a Free slot.
FreeOffsets(a) ==
    LET n == FrameCount(a.map)
    IN  {offset \in 0 .. n - 1 : a.map[(a.next_search_idx + offset) % n] = "Free"}

\* A mutant of allocate_frame: the lowest Free slot is taken, wherever the
\* cursor is.
allocate_frame_lowest(a) ==
    LET n == FrameCount(a.map)
        free == {idx \in DOMAIN a.map : a.map[idx] = "Free"}
    IN  IF free = {}
        THEN [alloc |-> a, ret |-> None]
        ELSE [alloc |-> [map |-> [a.map EXCEPT ![Min(free)] = "Reserved"],
                         next_search_idx |-> (Min(free) + 1) % n],
              ret |-> Some(Min(free))]

\* A mutant of allocate_frame: the slot found is not flipped to Reserved.
allocate_frame_noflip(a) ==
    LET n == FrameCount(a.map)
    IN  IF FreeOffsets(a) = {}
        THEN [alloc |-> a, ret |-> None]
        ELSE LET idx == (a.next_search_idx + Min(FreeOffsets(a))) % n
             IN  [alloc |-> [a EXCEPT !.next_search_idx = (idx + 1) % n],
                  ret |-> Some(idx)]

\* FrameAllocator::allocate_frame: the allocator afterwards and the result.
allocate_frame(a) ==
    LET n == FrameCount(a.map)
    IN  IF FreeOffsets(a) = {}
        THEN [alloc |-> a, ret |-> None]
        ELSE LET idx == (a.next_search_idx + Min(FreeOffsets(a))) % n
             IN  [alloc |-> [map |-> [a.map EXCEPT ![idx] = "Reserved"],
                             next_search_idx |-> (idx + 1) % n],
                  ret |-> Some(idx)]

\* A mutant of release_frame: a Free slot in range is released again.
release_frame_unchecked(a, number) ==
    IF number >= FrameCount(a.map)
    THEN [alloc |-> a, ret |-> FALSE]
    ELSE [alloc |-> [a EXCEPT !.map[number] = "Free"], ret |-> TRUE]

\* FrameAllocator::release_frame(Frame(number))
release_frame(a, number) ==
    IF number >= FrameCount(a.map)
    THEN [alloc |-> a, ret |-> FALSE]
    ELSE IF a.map[number] = "Free"
         THEN [alloc |-> a, ret |-> FALSE]
         ELSE [alloc |-> [a EXCEPT !.map[number] = "Free"], ret |-> TRUE]

\* The state of the subsystems no specification runs: the processor, the
\* interrupt-masking locks, the scripted sequences, the boot flow, the
\* channel, the routing table, the scheduler and the frame allocator.
Idle(unused) ==
    /\ "cpu" \in unused => interrupts = TRUE /\ isr = [pc |-> "idle"]
    /\ "lock" \in unused
          => guards = <<>> /\ before = <<>> /\ lk_last = [op |-> "none"]
    /\ "scenario" \in unused => scenario = [name |-> "none"]
    /\ "boot" \in unused => BOOT_INFO = None /\ boot = [pc |-> "none"]
    /\ "chan" \in unused
          => /\ KERNEL_CHANNEL = [queue |-> <<>>, locked |-> FALSE]
             /\ call = [op |-> "none", pc |-> "idle"]
             /\ ch_last = [op |-> "none"]
             /\ pending = <<>>
    /\ "route" \in unused
          => /\ ROUTING_TABLE = [init_registered |-> FALSE]
             /\ IPC_INTERRUPT_PENDING = FALSE
             /\ init_requested = FALSE
    /\ "sched" \in unused
          => /\ READY_QUEUE = [slots |-> <<>>, head |-> 0, tail |-> 0, next_id |-> 0]
             /\ run_pc = "outside"
             /\ current = None
             /\ sched_last = None
             /\ registered = <<>>
             /\ ran = <<>>
             /\ finished = {}
    /\ "frames" \in unused
          => /\ FRAME_ALLOCATOR = [map |-> <<>>, next_search_idx |-> 0]
             /\ fr_last = [op |-> "none"]
             /\ outstanding = {}
             /\ ever_allocated = {}
             /\ net_allocated = 0

FramesInit ==
    /\ Idle({"boot", "scenario", "chan", "route", "cpu", "lock", "sched"})
    /\ FRAME_ALLOCATOR = memory_init_none(SmallFrames)
    /\ fr_last = [op |-> "init", frame |-> None, ok |-> TRUE, again |-> FALSE]
    /\ outstanding = {}
    /\ ever_allocated = {}
    /\ net_allocated = 0

\* memory::allocate_frame()
AllocateFrame ==
    LET r == allocate_frame(FRAME_ALLOCATOR)
    IN  /\ FRAME_ALLOCATOR' = r.alloc
        /\ fr_last' = [op |-> "allocate", frame |-> r.ret, ok |-> r.ret # None,
                        again |-> r.ret # None /\ r.ret \subseteq ever_allocated]
        /\ outstanding' = outstanding \cup r.ret
        /\ ever_allocated' = ever_allocated \cup r.ret
        /\ net_allocated' = IF r.ret # None THEN net_allocated + 1 ELSE net_allocated
        /\ UNCHANGED <<cpuVars, lockVars, schedVars, chanVars, routeVars,
                       bootVars, scenario>>

\* memory::release_frame(frame)
ReleaseFrame ==
    \* every slot of the map, one number past it and the largest u16
    \E number \in (0 .. SmallFrames) \cup {U16 - 1} :
        LET r == release_frame(FRAME_ALLOCATOR, number)
        IN  /\ FRAME_ALLOCATOR' = r.alloc
            /\ fr_last' = [op |-> "release", frame |-> Some(number), ok |-> r.ret,
                            again |-> FALSE]
            /\ outstanding' = IF r.ret THEN outstanding \ {number} ELSE outstanding
            /\ net_allocated' = IF r.ret THEN net_allocated - 1 ELSE net_allocated
            /\ UNCHANGED <<ever_allocated, cpuVars, lockVars, schedVars,
                           chanVars, routeVars, bootVars, scenario>>

SpecFrames ==
    FramesInit /\ [][AllocateFrame \/ ReleaseFrame]_vars

\* C1: a frame number returned by allocate_frame is not one that an earlier
\* allocate_frame returned and that no release_frame has returned true for
\* since.
C1_NoDoubleAllocation ==
    [][(fr_last'.op = "allocate") => (fr_last'.frame \cap outstanding = {})]_vars

\* C1 witness: allocate_frame has just returned, for the second time, a frame
\* that was released in between, while another frame is still held.
C1_Witness ==
    /\ fr_last.op = "allocate"
    /\ fr_last.again
    /\ Cardinality(outstanding) >= 2

\* C12: reserved_frames() equals the number of Reserved slots right after
\* init plus the allocate_frame calls that returned a frame minus the
\* release_frame calls that returned true; it is the boot frames still
\* Reserved plus the frames held, so releasing every frame allocated since
\* some point brings the count back to its value at that point.
C12_ReservedCount ==
    /\ reserved_frames(FRAME_ALLOCATOR)
         = reserved_frames(memory_init_none(FrameCount(FRAME_ALLOCATOR.map)))
           + net_allocated
    /\ reserved_frames(FRAME_ALLOCATOR)
         = Cardinality({idx \in 0 .. BOOT_RESERVED_FRAMES - 1 :
                          FRAME_ALLOCATOR.map[idx] = "Reserved"})
           + Cardinality(outstanding \ (0 .. BOOT_RESERVED_FRAMES - 1))

\* C12 witness: after two allocations the last call released one of the two
\* frames and returned true; the other is still held.
C12_Witness ==
    /\ fr_last.op = "release"
    /\ fr_last.ok
    /\ net_allocated = 1
    /\ Cardinality(outstanding) = 1
    /\ Cardinality(ever_allocated) >= 2
    /\ reserved_frames(FRAME_ALLOCATOR) = BOOT_RESERVED_FRAMES + 1

\* C14: release_frame(f) returns true exactly when f.number < N and the slot
\* is Reserved, and then flips just that slot to Free; otherwise it returns
\* false and leaves the map and the cursor as they were; on a frame just
\* allocated it returns true, and called again at once it returns false.
C14_ReleaseFrame ==
    [][(fr_last'.op = "release") =>
        \A number \in fr_last'.frame :
            LET in_range == number < FrameCount(FRAME_ALLOCATOR.map)
                reserved == in_range /\ FRAME_ALLOCATOR.map[number] = "Reserved"
            IN  /\ fr_last'.ok = reserved
                /\ FRAME_ALLOCATOR'.next_search_idx = FRAME_ALLOCATOR.next_search_idx
                /\ DOMAIN FRAME_ALLOCATOR'.map = DOMAIN FRAME_ALLOCATOR.map
                /\ \A idx \in DOMAIN FRAME_ALLOCATOR.map :
                     FRAME_ALLOCATOR'.map[idx] =
                        IF reserved /\ idx = number THEN "Free"
                        ELSE FRAME_ALLOCATOR.map[idx]
                /\ (fr_last.op = "allocate" /\ fr_last.frame = Some(number))
                     => fr_last'.ok
                /\ (fr_last.op = "release" /\ fr_last.frame = Some(number))
                     => ~fr_last'.ok]_vars

\* C14 witness: a frame that was allocated and released is released again,
\* and the call returned false, while another frame is held.
C14_Witness ==
    /\ fr_last.op = "release"
    /\ ~fr_last.ok
    /\ fr_last.frame \subseteq (ever_allocated \ outstanding)
    /\ outstanding # {}

(***************************************************************************)
(* Exhaustion of the frame map at its real size: after memory::init(None), *)
(* allocate_frame is called until it returns None, one of the frames       *)
(* returned is released, and allocate_frame is called once more.           *)
(***************************************************************************)
ExhaustInit ==
    /\ Idle({"boot", "chan", "route", "cpu", "lock", "sched"})
    /\ FRAME_ALLOCATOR = memory_init_none(TOTAL_FRAMES)
    /\ fr_last = [op |-> "init", frame |-> None, ok |-> TRUE, again |-> FALSE]
    /\ outstanding = {}
    /\ ever_allocated = {}
    /\ net_allocated = 0
    /\ scenario = [name |-> "exhaust", pc |-> "fill", returned |-> <<>>,
                   released |-> None, release_ret |-> None, again |-> None]

\* memory::allocate_frame(), repeated until it returns None
ExhaustAllocate ==
    /\ scenario.name = "exhaust"
    /\ scenario.pc = "fill"
    /\ LET r == allocate_frame(FRAME_ALLOCATOR)
       IN  /\ FRAME_ALLOCATOR' = r.alloc
           /\ scenario' = IF r.ret = None
                           THEN [scenario EXCEPT !.pc = "full"]
                           ELSE [scenario EXCEPT !.returned =
                                   Append(@, CHOOSE f \in r.ret : TRUE)]
    /\ UNCHANGED <<cpuVars, lockVars, schedVars, chanVars, routeVars,
                   bootVars, fr_last, outstanding, ever_allocated,
                   net_allocated>>

\* memory::release_frame(frame), on one of the frames returned
ExhaustRelease ==
    /\ scenario.name = "exhaust"
    /\ scenario.pc = "full"
    /\ \E i \in 1 .. Len(scenario.returned) :
        LET r == release_frame(FRAME_ALLOCATOR, scenario.returned[i])
        IN  /\ FRAME_ALLOCATOR' = r.alloc
            /\ scenario' = [scenario EXCEPT !.pc = "released",
                               !.released = Some(scenario.returned[i]),
                               !.release_ret = Some(r.ret)]
    /\ UNCHANGED <<cpuVars, lockVars, schedVars, chanVars, routeVars,
                   bootVars, fr_last, outstanding, ever_allocated,
                   net_allocated>>

\* memory::allocate_frame(), after the release
ExhaustReallocate ==
    /\ scenario.name = "exhaust"
    /\ scenario.pc = "released"
    /\ LET r == allocate_frame(FRAME_ALLOCATOR)
       IN  /\ FRAME_ALLOCATOR' = r.alloc
           /\ scenario' = [scenario EXCEPT !.pc = "done", !.again = Some(r.ret)]
    /\ UNCHANGED <<cpuVars, lockVars, schedVars, chanVars, routeVars,
                   bootVars, fr_last, outstanding, ever_allocated,
                   net_allocated>>

SpecExhaust ==
    ExhaustInit /\ [][ExhaustAllocate \/ ExhaustRelease \/ ExhaustReallocate]_vars

KernelLocks == {"FRAME_ALLOCATOR", "ROUTING_TABLE", "READY_QUEUE"}

\* A mutant of cli: the flag is left as it is.
disable_interrupts_noop(flag) == flag

\* arch::disable_interrupts (cli), arch::enable_interrupts (sti)
disable_interrupts(flag) == FALSE
enable_interrupts(flag) == TRUE

\* SpinLock::lock: the flag afterwards and the guard.
SpinLock_lock(l, flag) ==
    LET interrupts_were_enabled == flag
    IN  [flag  |-> IF interrupts_were_enabled THEN disable_interrupts(flag) ELSE flag,
         guard |-> [live |-> TRUE, lock |-> l,
                    interrupts_were_enabled |-> interrupts_were_enabled]]

\* A mutant of drop: interrupts are enabled whatever the guard recorded.
SpinLockGuard_drop_always(guard, flag) == enable_interrupts(flag)

\* SpinLockGuard::drop: the flag afterwards.
SpinLockGuard_drop(guard, flag) ==
    IF guard.interrupts_were_enabled THEN enable_interrupts(flag) ELSE flag

\* A statement of the form LOCK.lock().f(): the guard is created, f runs and
\* the guard is dropped at the end of the statement; the flag afterwards.
locked_statement(l, flag) ==
    LET taken == SpinLock_lock(l, flag)
    IN  SpinLockGuard_drop(taken.guard, taken.flag)

\* The context the CPU executes: the handler while one runs, else the task.
Context == IF isr.pc = "idle" THEN "task" ELSE "isr"

\* Entry through an interrupt gate (IdtEntry options 0x8E00) clears the
\* flag; iret restores the flags pushed at entry, in which it was set.
gate_entry(flag) == FALSE
iret(flag) == TRUE

LockInit ==
    /\ Idle({"boot", "scenario", "chan", "route", "frames", "sched"})
    /\ interrupts \in BOOLEAN
    /\ guards = [l \in KernelLocks |-> [live |-> FALSE]]
    /\ before = [l \in KernelLocks |-> [flag |-> FALSE, by |-> "none"]]
    /\ lk_last = [op |-> "none"]
    /\ isr = [pc |-> "idle"]

\* l.lock() in the running context, for a lock l of which no guard is live
Lock ==
    /\ \E l \in KernelLocks :
        /\ ~guards[l].live
        /\ LET r == SpinLock_lock(l, interrupts)
           IN  /\ interrupts' = r.flag
               /\ guards' = [guards EXCEPT ![l] = r.guard]
        /\ before' = [before EXCEPT ![l] = [flag |-> interrupts, by |-> Context]]
        /\ lk_last' = [op |-> "lock", lock |-> l, before |-> interrupts]
    /\ UNCHANGED <<isr, frameVars, schedVars, chanVars, routeVars, bootVars,
                   scenario>>

\* drop(guard), of any live guard of the running context
DropGuard ==
    /\ \E l \in KernelLocks :
        /\ guards[l].live
        /\ before[l].by = Context
        /\ interrupts' = SpinLockGuard_drop(guards[l], interrupts)
        /\ guards' = [guards EXCEPT ![l] = [live |-> FALSE]]
        /\ before' = [before EXCEPT ![l] = [flag |-> FALSE, by |-> "none"]]
        /\ lk_last' = [op |-> "drop", lock |-> l, before |-> before[l].flag]
    /\ UNCHANGED <<isr, frameVars, schedVars, chanVars, routeVars, bootVars,
                   scenario>>

\* A timer or IPC interrupt is taken: possible only with the flag set.
InterruptEnter ==
    /\ isr.pc = "idle"
    /\ interrupts
    /\ interrupts' = gate_entry(interrupts)
    /\ isr' = [pc |-> "handler"]
    /\ UNCHANGED <<guards, before, lk_last, frameVars, schedVars, chanVars,
                   routeVars, bootVars, scenario>>

\* The handler returns, its own guards dropped.
InterruptReturn ==
    /\ isr.pc = "handler"
    /\ \A l \in KernelLocks : before[l].by # "isr"
    /\ interrupts' = iret(interrupts)
    /\ isr' = [pc |-> "idle"]
    /\ UNCHANGED <<guards, before, lk_last, frameVars, schedVars, chanVars,
                   routeVars, bootVars, scenario>>

LockNext ==
    \/ Lock
    \/ DropGuard
    \/ InterruptEnter
    \/ InterruptReturn

SpecLock == LockInit /\ [][LockNext]_vars

\* C5: interrupts are disabled in every state in which a guard is live.
C5_MaskedWhileGuardLive ==
    ({l \in KernelLocks : guards[l].live} # {}) => ~interrupts

\* C6: the step that drops a guard leaves the interrupt flag at the value it
\* had immediately before the lock() call that created the guard.
C6_DropRestoresFlag ==
    [][\A l \in KernelLocks :
          (guards[l].live /\ ~guards'[l].live) => (interrupts' = before[l].flag)]_vars

(***************************************************************************)
(* kernel/src/scheduler.rs                                                 *)
(***************************************************************************)
\* Length of the ready ring the exhaustive specification explores.
SmallTasks == 3

\* Successful registrations in one behaviour.
MaxRegistrations == 5

MAX_TASKS == 16

\* [Option<TaskControlBlock>; MAX_TASKS]: the number of slots of a ring.
TaskSlots(q) == Cardinality(DOMAIN q.slots)

\* TaskControlBlock::new
TaskControlBlock(id, entry, state) == [id |-> id, entry |-> entry, state |-> state]

\* ReadyQueue::new / reset on a ring of n slots; reset keeps next_id.
ready_queue_reset(n, next_id) ==
    [slots |-> [i \in 0 .. n - 1 |-> None], head |-> 0, tail |-> 0,
     next_id |-> next_id]

\* A mutant of push: the full ring is not detected.
ReadyQueue_push_nofull(q, entry) ==
    LET next_tail == (q.tail + 1) % TaskSlots(q)
        id == q.next_id
    IN  [queue |-> [slots |-> [q.slots EXCEPT ![q.tail] =
                                 Some(TaskControlBlock(id, entry, "Ready"))],
                    head |-> q.head, tail |-> next_tail,
                    next_id |-> (q.next_id + 1) % U16],
         ret |-> Some(id)]

\* A mutant of push: the task is put in front of the ring, not behind it.
ReadyQueue_push_front(q, entry) ==
    LET n == TaskSlots(q)
        next_tail == (q.tail + 1) % n
        new_head == (q.head + n - 1) % n
        id == q.next_id
    IN  IF next_tail = q.head
        THEN [queue |-> q, ret |-> None]
        ELSE [queue |-> [slots |-> [q.slots EXCEPT ![new_head] =
                                      Some(TaskControlBlock(id, entry, "Ready"))],
                         head |-> new_head, tail |-> q.tail,
                         next_id |-> (q.next_id + 1) % U16],
              ret |-> Some(id)]

\* A mutant of push: an id is consumed even when the ring is full.
ReadyQueue_push_burn_id(q, entry) ==
    LET next_tail == (q.tail + 1) % TaskSlots(q)
        id == q.next_id
    IN  IF next_tail = q.head
        THEN [queue |-> [q EXCEPT !.next_id = (q.next_id + 1) % U16], ret |-> None]
        ELSE [queue |-> [slots |-> [q.slots EXCEPT ![q.tail] =
                                      Some(TaskControlBlock(id, entry, "Ready"))],
                         head |-> q.head, tail |-> next_tail,
                         next_id |-> (q.next_id + 1) % U16],
              ret |-> Some(id)]

\* ReadyQueue::push: the queue afterwards and the id returned, if any.
ReadyQueue_push(q, entry) ==
    LET next_tail == (q.tail + 1) % TaskSlots(q)
        id == q.next_id
    IN  IF next_tail = q.head
        THEN [queue |-> q, ret |-> None]
        ELSE [queue |-> [slots |-> [q.slots EXCEPT ![q.tail] =
                                      Some(TaskControlBlock(id, entry, "Ready"))],
                         head |-> q.head, tail |-> next_tail,
                         next_id |-> (q.next_id + 1) % U16],
              ret |-> Some(id)]

\* A mutant of pop: the last task of the ring is not handed out.
ReadyQueue_pop_early(q) ==
    IF q.head = q.tail \/ (q.head + 1) % TaskSlots(q) = q.tail
    THEN [queue |-> q, ret |-> None]
    ELSE [queue |-> [q EXCEPT !.slots[q.head] = None,
                              !.head = (q.head + 1) % TaskSlots(q)],
          ret |-> {[task EXCEPT !.state = "Running"] : task \in q.slots[q.head]}]

\* ReadyQueue::pop: the queue afterwards and the TCB returned, if any.
ReadyQueue_pop(q) ==
    IF q.head = q.tail
    THEN [queue |-> q, ret |-> None]
    ELSE [queue |-> [q EXCEPT !.slots[q.head] = None,
                              !.head = (q.head + 1) % TaskSlots(q)],
          ret |-> {[task EXCEPT !.state = "Running"] : task \in q.slots[q.head]}]

SchedInit ==
    /\ Idle({"boot", "scenario", "chan", "route", "frames", "cpu", "lock"})
    /\ \E next_id \in {0, U16 - 2} :
           READY_QUEUE = ready_queue_reset(SmallTasks, next_id)
    /\ run_pc = "outside"
    /\ current = None
    /\ sched_last = None
    /\ registered = <<>>
    /\ ran = <<>>
    /\ finished = {}

\* scheduler::register(entry), called outside run() or by the running task
Register ==
    /\ run_pc \in {"outside", "task"}
    /\ Len(registered) < MaxRegistrations
    /\ \E entry \in {"init_task", "worker"} :
        LET r == ReadyQueue_push(READY_QUEUE, entry)
        IN  /\ READY_QUEUE' = r.queue
            /\ sched_last' = r.ret
            /\ registered' = registered \o
                    [i \in 1 .. Cardinality(r.ret) |->
                        [id |-> CHOOSE id \in r.ret : TRUE, entry |-> entry,
                         by |-> run_pc]]
    /\ UNCHANGED <<run_pc, current, ran, finished, frameVars, cpuVars,
                   lockVars, chanVars, routeVars, bootVars, scenario>>

\* scheduler::run() is called.
RunStart ==
    /\ run_pc = "outside"
    /\ run_pc' = "loop"
    /\ UNCHANGED <<READY_QUEUE, current, sched_last, registered, ran,
                   finished, frameVars, cpuVars, lockVars, chanVars,
                   routeVars, bootVars, scenario>>

\* One turn of the loop of run(): pop under the lock, then either invoke the
\* entry of the task popped or break.
RunPop ==
    /\ run_pc = "loop"
    /\ LET r == ReadyQueue_pop(READY_QUEUE)
       IN  /\ READY_QUEUE' = r.queue
           /\ current' = r.ret
           /\ IF r.ret # None
              THEN /\ run_pc' = "task"
                   /\ ran' = Append(ran, LET tcb == CHOOSE task \in r.ret : TRUE
                                          IN  [id |-> tcb.id, entry |-> tcb.entry])
              ELSE /\ run_pc' = "outside"
                   /\ UNCHANGED ran
    /\ UNCHANGED <<sched_last, registered, finished, frameVars, cpuVars,
                   lockVars, chanVars, routeVars, bootVars, scenario>>

\* The entry of the running task returns.
TaskReturn ==
    /\ run_pc = "task"
    /\ run_pc' = "loop"
    /\ current' = None
    /\ finished' = finished \cup current
    /\ UNCHANGED <<READY_QUEUE, sched_last, registered, ran, frameVars,
                   cpuVars, lockVars, chanVars, routeVars, bootVars,
                   scenario>>

SchedNext ==
    \/ Register
    \/ RunStart
    \/ RunPop
    \/ TaskReturn

SpecSched == SchedInit /\ [][SchedNext]_vars

\* The id and the entry of a registration.
Task(reg) == [id |-> reg.id, entry |-> reg.entry]

\* C3: the tasks run() has invoked are, in order, the first of the tasks
\* whose register call succeeded, in the order of those calls.
C3_RunInRegisterOrder ==
    /\ Len(ran) <= Len(registered)
    /\ \A i \in 1 .. Len(ran) : ran[i] = Task(registered[i])

\* C3 witness: a task registered by a running task is running, after the
\* ring indices have wrapped.
C3_Witness ==
    /\ run_pc = "task"
    /\ Len(ran) > SmallTasks
    /\ registered[Len(ran)].by = "task"

\* C4: no registered task is ever invoked twice, and when run() returns
\* every task whose register call returned an id has been invoked once.
C4_EveryTaskRunOnce ==
    [][/\ \A j, k \in 1 .. Len(ran') : ran'[j].id = ran'[k].id => j = k
       /\ (run_pc = "loop" /\ run_pc' = "outside")
            => \A i \in 1 .. Len(registered') :
                  Cardinality({j \in 1 .. Len(ran') :
                                 ran'[j] = Task(registered'[i])}) = 1]_vars

\* C4 witness: run() has returned after running more tasks than the ring
\* holds, some of them registered by running tasks.
C4_Witness ==
    /\ run_pc = "outside"
    /\ Len(ran) = MaxRegistrations
    /\ Len(registered) = MaxRegistrations
    /\ \E i \in 1 .. Len(registered) : registered[i].by = "task"
    /\ \E i \in 1 .. Len(registered) : registered[i].by = "outside"
    /\ READY_QUEUE.head = READY_QUEUE.tail

\* C18: register returns empty exactly when the would-be new tail equals
\* head, and then changes neither the slots, head, tail nor next_id;
\* otherwise it puts a Ready TCB with the next id in the tail slot, advances
\* tail, returns that id and advances next_id, wrapping at 2^16.
C18_Register ==
    [][(run_pc' = run_pc) =>
        LET q == READY_QUEUE
            next_tail == (q.tail + 1) % TaskSlots(q)
        IN  IF next_tail = q.head
            THEN /\ sched_last' = None
                 /\ READY_QUEUE' = READY_QUEUE
            ELSE /\ sched_last' = Some(q.next_id)
                 /\ \E entry \in {"init_task", "worker"} :
                      READY_QUEUE'.slots = [q.slots EXCEPT ![q.tail] =
                          Some([id |-> q.next_id, entry |-> entry, state |-> "Ready"])]
                 /\ READY_QUEUE'.head = q.head
                 /\ READY_QUEUE'.tail = next_tail
                 /\ READY_QUEUE'.next_id = (q.next_id + 1) % 65536]_vars

\* C18 witness: the last register found the ring full and returned empty,
\* after the ids had wrapped from 65535 to 0 and the ring indices had wrapped.
C18_Witness ==
    /\ sched_last = None
    /\ (READY_QUEUE.tail + 1) % TaskSlots(READY_QUEUE) = READY_QUEUE.head
    /\ READY_QUEUE.head # 0
    /\ \E i \in 1 .. Len(registered) - 1 :
         /\ registered[i].id = 65535
         /\ registered[i + 1].id = 0
    /\ \E i \in DOMAIN READY_QUEUE.slots :
         \E tcb \in READY_QUEUE.slots[i] : tcb.id = 0 /\ tcb.state = "Ready"

\* C19: a task control block is Ready while it is enqueued, Running once it
\* is popped, and Completed when its entry has returned; Blocked is never
\* produced.
C19_TaskLifecycle ==
    /\ \A i \in DOMAIN READY_QUEUE.slots :
         \A tcb \in READY_QUEUE.slots[i] : tcb.state = "Ready"
    /\ \A tcb \in current : tcb.state = "Running"
    /\ \A tcb \in finished : tcb.state = "Completed"
    /\ \A tcb \in finished \cup current : tcb.state \in {"Ready", "Running", "Completed"}

(***************************************************************************)
(* ipc/src/channel.rs                                                      *)
(***************************************************************************)
MAX_PAYLOAD == 64
MAX_MESSAGES == 16

\* Length of the message ring the exhaustive specifications explore.
SmallMessages == 2

\* [QueueSlot; MAX_MESSAGES]: the number of slots of a ring.
MessageSlots(q) == Cardinality(DOMAIN q.slots)

\* A buffer of n zero bytes ([0u8; n]); bytes are numbers, slices sequences.
Zeroes(n) == [i \in 1 .. n |-> 0]

\* Message::empty
Message_empty == [len |-> 0, payload |-> [idx \in 0 .. MAX_PAYLOAD - 1 |-> 0]]

\* Message::from_slice
Message_from_slice(bytes) ==
    IF Len(bytes) > MAX_PAYLOAD
    THEN [ok |-> FALSE, err |-> "Oversized"]
    ELSE [ok |-> TRUE,
          message |-> [len |-> Len(bytes),
                       payload |-> [idx \in 0 .. MAX_PAYLOAD - 1 |->
                           IF idx < Len(bytes) THEN bytes[idx + 1]
                           ELSE Message_empty.payload[idx]]]]

\* A mutant of write_into: the length of the message is returned, whatever
\* was copied.
Message_write_into_needed(message, buffer) ==
    LET needed == message.len
        copy_len == IF needed < Len(buffer) THEN needed ELSE Len(buffer)
    IN  [count |-> needed,
         buffer |-> [i \in 1 .. Len(buffer) |->
                        IF i - 1 < copy_len THEN message.payload[i - 1] ELSE buffer[i]]]

\* Message::write_into: the count returned and the buffer afterwards.
Message_write_into(message, buffer) ==
    LET needed == message.len
        copy_len == IF needed < Len(buffer) THEN needed ELSE Len(buffer)
    IN  [count |-> copy_len,
         buffer |-> [i \in 1 .. Len(buffer) |->
                        IF i - 1 < copy_len THEN message.payload[i - 1] ELSE buffer[i]]]

\* MessageQueue::new, on a ring of n slots, each QueueSlot::empty
MessageQueue_new(n) ==
    [slots |-> [i \in 0 .. n - 1 |-> [message |-> Message_empty, used |-> FALSE]],
     head |-> 0, tail |-> 0, len |-> 0]

\* A mutant of push: the message goes into the head slot.
MessageQueue_push_at_head(q, message) ==
    IF q.len = MessageSlots(q)
    THEN [queue |-> q, ret |-> [ok |-> FALSE, err |-> "Full"]]
    ELSE [queue |-> [slots |-> [q.slots EXCEPT ![q.head] =
                                  [message |-> message, used |-> TRUE]],
                     head |-> q.head,
                     tail |-> (q.tail + 1) % MessageSlots(q),
                     len |-> q.len + 1],
          ret |-> [ok |-> TRUE]]

\* A mutant of push: the ring is never found full.
MessageQueue_push_never_full(q, message) ==
    [queue |-> [slots |-> [q.slots EXCEPT ![q.tail] =
                             [message |-> message, used |-> TRUE]],
                head |-> q.head,
                tail |-> (q.tail + 1) % MessageSlots(q),
                len |-> q.len + 1],
     ret |-> [ok |-> TRUE]]

\* A mutant of push: the new bytes are laid over the slot's old message,
\* whose longer tail and length survive.
MessageQueue_push_overlay(q, message) ==
    IF q.len = MessageSlots(q)
    THEN [queue |-> q, ret |-> [ok |-> FALSE, err |-> "Full"]]
    ELSE LET old == q.slots[q.tail].message
             laid == [len |-> IF old.len > message.len THEN old.len ELSE message.len,
                      payload |-> [idx \in DOMAIN old.payload |->
                                     IF idx < message.len THEN message.payload[idx]
                                     ELSE old.payload[idx]]]
         IN  [queue |-> [slots |-> [q.slots EXCEPT ![q.tail] =
                                      [message |-> laid, used |-> TRUE]],
                         head |-> q.head,
                         tail |-> (q.tail + 1) % MessageSlots(q),
                         len |-> q.len + 1],
              ret |-> [ok |-> TRUE]]

\* MessageQueue::push: the queue afterwards and the result.
MessageQueue_push(q, message) ==
    IF q.len = MessageSlots(q)
    THEN [queue |-> q, ret |-> [ok |-> FALSE, err |-> "Full"]]
    ELSE [queue |-> [slots |-> [q.slots EXCEPT ![q.tail] =
                                  [message |-> message, used |-> TRUE]],
                     head |-> q.head,
                     tail |-> (q.tail + 1) % MessageSlots(q),
                     len |-> q.len + 1],
          ret |-> [ok |-> TRUE]]

\* MessageQueue::pop: the queue afterwards and the result, with the count
\* returned and the caller's buffer afterwards.
MessageQueue_pop(q, buffer) ==
    IF q.len = 0
    THEN [queue |-> q, ret |-> [ok |-> FALSE, err |-> "Empty", buffer |-> buffer]]
    ELSE LET slot == q.slots[q.head]
             written == Message_write_into(slot.message, buffer)
         IN  [queue |-> [slots |-> [q.slots EXCEPT ![q.head].used = FALSE],
                         head |-> (q.head + 1) % MessageSlots(q),
                         tail |-> q.tail,
                         len |-> q.len - 1],
              ret |-> [ok |-> TRUE, count |-> written.count,
                       buffer |-> written.buffer]]

\* A mutant of reset: the indices are cleared and the slots left as they are.
MessageQueue_reset_indices(q) ==
    [slots |-> q.slots, head |-> 0, tail |-> 0, len |-> 0]

\* MessageQueue::reset
MessageQueue_reset(q) ==
    [slots |-> [i \in DOMAIN q.slots |-> [q.slots[i] EXCEPT !.used = FALSE]],
     head |-> 0, tail |-> 0, len |-> 0]

\* Channel::new, on a ring of n slots
Channel_new(n) == [queue |-> MessageQueue_new(n), locked |-> FALSE]

\* A mutant of the lock: the exchange succeeds whatever the flag holds.
ChannelLock_try_blind(locked) == [locked |-> TRUE, acquired |-> TRUE]

\* One turn of the loop of the channel's SpinLock::lock:
\* compare_exchange_weak(false, true); the flag afterwards and whether the
\* lock was taken.
ChannelLock_try(locked) ==
    IF locked = FALSE
    THEN [locked |-> TRUE, acquired |-> TRUE]
    ELSE [locked |-> locked, acquired |-> FALSE]

\* The channel's SpinLockGuard::drop
ChannelLock_release(locked) == FALSE

\* The lengths of the buffers receive is given.
BufferLengths == {0, 1, 16}

NoCall == [op |-> "none", pc |-> "idle"]

ChanInit ==
    /\ Idle({"boot", "scenario", "frames", "lock", "sched", "route", "cpu"})
    /\ KERNEL_CHANNEL = Channel_new(SmallMessages)
    /\ call = NoCall
    /\ ch_last = [op |-> "none"]
    /\ pending = <<>>

\* The task runs only while no handler does.
TaskRuns == isr.pc = "idle"

\* The body of an operation, executed under the channel lock: the queue
\* afterwards and the result.
ChannelBody(c, q) ==
    CASE c.op = "send"    -> MessageQueue_push(q, c.message)
      [] c.op = "receive" -> MessageQueue_pop(q, c.buffer)
      [] c.op = "reset"   -> [queue |-> MessageQueue_reset(q), ret |-> [ok |-> TRUE]]

\* The accepted payloads not yet received, after the body of c has run with
\* result ret in context by.
PendingAfter(c, ret, by) ==
    CASE c.op = "send" /\ ret.ok    -> Append(pending, [bytes |-> c.bytes, by |-> by])
      [] c.op = "receive" /\ ret.ok -> Tail(pending)
      [] c.op = "reset"             -> <<>>
      [] OTHER                      -> pending

\* Channel::send(bytes) is called by the task: from_slice, then on to lock().
TaskSend ==
    /\ TaskRuns
    /\ call.pc = "idle"
    \* the payloads: empty, short, and one byte too long
    /\ \E bytes \in {<<>>, <<1>>, <<2, 3>>, [i \in 1 .. MAX_PAYLOAD + 1 |-> 4]} :
        LET m == Message_from_slice(bytes)
        IN  IF m.ok
            THEN /\ call' = [op |-> "send", pc |-> "lock", bytes |-> bytes,
                             message |-> m.message]
                 /\ UNCHANGED ch_last
            ELSE /\ ch_last' = [op |-> "send", by |-> "task", ret |-> m]
                 /\ UNCHANGED call
    /\ UNCHANGED <<KERNEL_CHANNEL, pending, cpuVars, frameVars, lockVars,
                   schedVars, routeVars, bootVars, scenario>>

\* Channel::receive(buffer) is called by the task.
TaskReceive ==
    /\ TaskRuns
    /\ call.pc = "idle"
    /\ \E n \in BufferLengths :
        call' = [op |-> "receive", pc |-> "lock", buffer |-> Zeroes(n)]
    /\ UNCHANGED <<KERNEL_CHANNEL, ch_last, pending, cpuVars, frameVars,
                   lockVars, schedVars, routeVars, bootVars, scenario>>

\* Channel::reset() is called by the task.
TaskReset ==
    /\ TaskRuns
    /\ call.pc = "idle"
    /\ call' = [op |-> "reset", pc |-> "lock"]
    /\ UNCHANGED <<KERNEL_CHANNEL, ch_last, pending, cpuVars, frameVars,
                   lockVars, schedVars, routeVars, bootVars, scenario>>

\* The task's turn of the lock loop.
TaskLock ==
    /\ TaskRuns
    /\ call.pc = "lock"
    /\ LET r == ChannelLock_try(KERNEL_CHANNEL.locked)
       IN  /\ KERNEL_CHANNEL' = [KERNEL_CHANNEL EXCEPT !.locked = r.locked]
           /\ call' = [call EXCEPT !.pc = IF r.acquired THEN "cs" ELSE "lock"]
    /\ UNCHANGED <<ch_last, pending, cpuVars, frameVars, lockVars, schedVars,
                   routeVars, bootVars, scenario>>

\* The task's push, pop or reset, the guard held.
TaskBody ==
    /\ TaskRuns
    /\ call.pc = "cs"
    /\ LET r == ChannelBody(call, KERNEL_CHANNEL.queue)
       IN  /\ KERNEL_CHANNEL' = [KERNEL_CHANNEL EXCEPT !.queue = r.queue]
           /\ call' = [op |-> call.op, pc |-> "unlock", ret |-> r.ret]
           /\ pending' = PendingAfter(call, r.ret, "task")
    /\ UNCHANGED <<ch_last, cpuVars, frameVars, lockVars, schedVars,
                   routeVars, bootVars, scenario>>

\* The task's guard is dropped and the call returns.
TaskUnlock ==
    /\ TaskRuns
    /\ call.pc = "unlock"
    /\ KERNEL_CHANNEL' = [KERNEL_CHANNEL EXCEPT
                              !.locked = ChannelLock_release(KERNEL_CHANNEL.locked)]
    /\ ch_last' = [op |-> call.op, by |-> "task", ret |-> call.ret]
    /\ call' = NoCall
    /\ UNCHANGED <<pending, cpuVars, frameVars, lockVars, schedVars,
                   routeVars, bootVars, scenario>>

\* An interrupt is taken, at any point of the task, and its handler calls
\* Channel::send(bytes).
IsrSend ==
    /\ isr.pc = "idle"
    /\ interrupts
    /\ interrupts' = gate_entry(interrupts)
    /\ \E bytes \in {<<5, 6>>} :
        isr' = [op |-> "send", pc |-> "lock", bytes |-> bytes,
                message |-> Message_from_slice(bytes).message]
    /\ UNCHANGED <<chanVars, frameVars, lockVars, schedVars, routeVars,
                   bootVars, scenario>>

\* The handler's turn of the lock loop: it spins while the flag is set.
IsrLock ==
    /\ isr.pc = "lock"
    /\ LET r == ChannelLock_try(KERNEL_CHANNEL.locked)
       IN  /\ KERNEL_CHANNEL' = [KERNEL_CHANNEL EXCEPT !.locked = r.locked]
           /\ isr' = [isr EXCEPT !.pc = IF r.acquired THEN "cs" ELSE "lock"]
    /\ UNCHANGED <<call, ch_last, pending, interrupts, frameVars, lockVars,
                   schedVars, routeVars, bootVars, scenario>>

\* The handler's push, the guard held.
IsrBody ==
    /\ isr.pc = "cs"
    /\ LET r == ChannelBody(isr, KERNEL_CHANNEL.queue)
       IN  /\ KERNEL_CHANNEL' = [KERNEL_CHANNEL EXCEPT !.queue = r.queue]
           /\ isr' = [op |-> isr.op, pc |-> "unlock", ret |-> r.ret]
           /\ pending' = PendingAfter(isr, r.ret, "isr")
    /\ UNCHANGED <<call, ch_last, interrupts, frameVars, lockVars, schedVars,
                   routeVars, bootVars, scenario>>

\* The handler's guard is dropped and its send returns.
IsrUnlock ==
    /\ isr.pc = "unlock"
    /\ KERNEL_CHANNEL' = [KERNEL_CHANNEL EXCEPT
                              !.locked = ChannelLock_release(KERNEL_CHANNEL.locked)]
    /\ ch_last' = [op |-> isr.op, by |-> "isr", ret |-> isr.ret]
    /\ isr' = [pc |-> "iret"]
    /\ UNCHANGED <<call, pending, interrupts, frameVars, lockVars, schedVars,
                   routeVars, bootVars, scenario>>

\* The handler returns to the interrupted task.
IsrReturn ==
    /\ isr.pc = "iret"
    /\ interrupts' = iret(interrupts)
    /\ isr' = [pc |-> "idle"]
    /\ UNCHANGED <<chanVars, frameVars, lockVars, schedVars, routeVars,
                   bootVars, scenario>>

ChanNext ==
    \/ TaskSend
    \/ TaskReceive
    \/ TaskReset
    \/ TaskLock
    \/ TaskBody
    \/ TaskUnlock
    \/ IsrSend
    \/ IsrLock
    \/ IsrBody
    \/ IsrUnlock
    \/ IsrReturn

SpecChan == ChanInit /\ [][ChanNext]_vars

\* The first n elements of a slice.
Prefix(bytes, n) == [i \in 1 .. (IF n < Len(bytes) THEN n ELSE Len(bytes)) |-> bytes[i]]

\* C2: every successful receive returns the oldest payload send has accepted
\* (in the order in which the sends ran under the lock) that no receive has
\* returned yet, cut to the length of the receiver's buffer.
C2_ChannelFifo ==
    [][(call.op = "receive" /\ call.pc = "cs" /\ call'.pc = "unlock" /\ call'.ret.ok)
        => /\ pending # <<>>
           /\ call'.ret.count = Len(Prefix(Head(pending).bytes, Len(call.buffer)))
           /\ Prefix(call'.ret.buffer, call'.ret.count)
                = Prefix(Head(pending).bytes, Len(call.buffer))]_vars

\* C2 witness: after the ring has wrapped, a receive into a 1-byte buffer has
\* returned the first byte of the handler's 2-byte payload, a payload of the
\* task still queued behind it.
C2_Witness ==
    /\ call.op = "receive"
    /\ call.pc = "unlock"
    /\ call.ret.ok
    /\ call.ret.count = 1
    /\ call.ret.buffer = <<5>>
    /\ KERNEL_CHANNEL.queue.head = 0
    /\ Len(pending) = 1
    /\ pending[1].by = "task"

\* The contexts inside the critical section of the channel.
InCritical(c) == c.pc \in {"cs", "unlock"}

\* C7: the handler's send and the interrupted task's operation are never
\* inside the channel's critical section together.
C7_MutualExclusion == ~(InCritical(call) /\ InCritical(isr))

\* C7 witness: the handler's send is in the critical section while the
\* interrupted task is inside an operation of the same channel.
C7_Witness ==
    /\ isr.pc = "cs"
    /\ call.op = "receive"
    /\ call.pc = "lock"

\* C8: no call is ever stuck: the handler's send never waits for a lock
\* that the task it interrupted holds, and which that task cannot release
\* before the handler returns.
C8_NoSelfDeadlock ==
    ~(isr.pc = "lock" /\ KERNEL_CHANNEL.locked /\ InCritical(call))

(***************************************************************************)
(* Channel::send / receive / reset run to completion (no handler calls     *)
(* into the channel), and kernel/src/ipc_bridge.rs on top of them          *)
(***************************************************************************)
\* A mutant of send: the ring is probed before the payload is measured.
Channel_send_full_first(c, bytes) ==
    IF c.queue.len = MessageSlots(c.queue)
    THEN [chan |-> c, ret |-> [ok |-> FALSE, err |-> "Full"]]
    ELSE LET m == Message_from_slice(bytes)
         IN  IF ~m.ok
             THEN [chan |-> c, ret |-> m]
             ELSE LET r == MessageQueue_push(c.queue, m.message)
                  IN  [chan |-> [queue |-> r.queue, locked |-> c.locked],
                       ret |-> r.ret]

\* Channel::send, the lock free when it is called
Channel_send(c, bytes) ==
    LET m == Message_from_slice(bytes)
    IN  IF ~m.ok
        THEN [chan |-> c, ret |-> m]
        ELSE LET held == ChannelLock_try(c.locked).locked
                 r == MessageQueue_push(c.queue, m.message)
             IN  [chan |-> [queue |-> r.queue, locked |-> ChannelLock_release(held)],
                  ret |-> r.ret]

\* Channel::receive, the lock free when it is called
Channel_receive(c, buffer) ==
    LET held == ChannelLock_try(c.locked).locked
        r == MessageQueue_pop(c.queue, buffer)
    IN  [chan |-> [queue |-> r.queue, locked |-> ChannelLock_release(held)],
         ret |-> r.ret]

\* Channel::reset (ipc::init), the lock free when it is called
Channel_reset(c) ==
    LET held == ChannelLock_try(c.locked).locked
    IN  [queue |-> MessageQueue_reset(c.queue), locked |-> ChannelLock_release(held)]

\* RoutingTable::new
RoutingTable_new == [init_registered |-> FALSE]

\* A mutant of mark_init_registered: the flag is not set.
RoutingTable_mark_init_registered_noop(t) == t

\* RoutingTable::mark_init_registered
RoutingTable_mark_init_registered(t) == [t EXCEPT !.init_registered = TRUE]

\* A mutant of clear: the flag is left as it is.
RoutingTable_clear_kept(t) == t

\* RoutingTable::clear
RoutingTable_clear(t) == [t EXCEPT !.init_registered = FALSE]

\* ipc_bridge::init_service_registered
init_service_registered(t) == t.init_registered

\* ipc_bridge::send_bootstrap_message: the channel afterwards and the result.
send_bootstrap_message(t, c, payload) ==
    IF init_service_registered(t)
    THEN Channel_send(c, payload)
    ELSE [chan |-> c, ret |-> [ok |-> FALSE, err |-> "Unroutable"]]

\* ipc_bridge::receive_bootstrap_message
receive_bootstrap_message(c, buffer) == Channel_receive(c, buffer)

RouteInit ==
    /\ Idle({"boot", "scenario", "frames", "lock", "sched", "cpu"})
    /\ KERNEL_CHANNEL = Channel_new(SmallMessages)
    /\ call = NoCall
    /\ ch_last = [op |-> "none"]
    /\ pending = <<>>
    /\ ROUTING_TABLE = RoutingTable_new
    /\ IPC_INTERRUPT_PENDING = FALSE
    /\ init_requested = FALSE

\* ipc_bridge::init()
BridgeInit ==
    /\ KERNEL_CHANNEL' = Channel_reset(KERNEL_CHANNEL)
    /\ ROUTING_TABLE' = RoutingTable_clear(ROUTING_TABLE)
    /\ IPC_INTERRUPT_PENDING' = FALSE
    /\ init_requested' = FALSE
    /\ pending' = <<>>
    /\ ch_last' = [op |-> "init"]
    /\ UNCHANGED <<call, frameVars, cpuVars, lockVars, schedVars, bootVars,
                   scenario>>

\* ipc_bridge::register_init_service()
RegisterInitService ==
    /\ ROUTING_TABLE' = RoutingTable_mark_init_registered(ROUTING_TABLE)
    /\ init_requested' = TRUE
    /\ ch_last' = [op |-> "register_init_service"]
    /\ UNCHANGED <<KERNEL_CHANNEL, call, pending, IPC_INTERRUPT_PENDING,
                   frameVars, cpuVars, lockVars, schedVars, bootVars,
                   scenario>>

\* ipc_bridge::send_bootstrap_message(payload)
SendBootstrapMessage ==
    \* the payloads: "X", "BOOT", and one byte too long
    /\ \E payload \in {<<88>>, <<66, 79, 79, 84>>,
                        [i \in 1 .. MAX_PAYLOAD + 1 |-> 4]} :
        LET r == send_bootstrap_message(ROUTING_TABLE, KERNEL_CHANNEL, payload)
        IN  /\ KERNEL_CHANNEL' = r.chan
            /\ ch_last' = [op |-> "send_bootstrap_message", ret |-> r.ret]
            /\ pending' = IF r.ret.ok
                           THEN Append(pending, [bytes |-> payload, by |-> "task"])
                           ELSE pending
    /\ UNCHANGED <<call, ROUTING_TABLE, IPC_INTERRUPT_PENDING, init_requested,
                   <<frameVars, cpuVars, lockVars, schedVars, bootVars, scenario>>>>

\* ipc_bridge::receive_bootstrap_message(buffer)
ReceiveBootstrapMessage ==
    /\ \E n \in BufferLengths :
        LET r == receive_bootstrap_message(KERNEL_CHANNEL, Zeroes(n))
        IN  /\ KERNEL_CHANNEL' = r.chan
            /\ ch_last' = [op |-> "receive_bootstrap_message", ret |-> r.ret]
            /\ pending' = IF r.ret.ok THEN Tail(pending) ELSE pending
    /\ UNCHANGED <<call, ROUTING_TABLE, IPC_INTERRUPT_PENDING, init_requested,
                   <<frameVars, cpuVars, lockVars, schedVars, bootVars, scenario>>>>

\* ipc_bridge::handle_ipc_trap, run by the IPC vector
HandleIpcTrap ==
    /\ IPC_INTERRUPT_PENDING' = TRUE
    /\ ch_last' = [op |-> "handle_ipc_trap"]
    /\ UNCHANGED <<KERNEL_CHANNEL, call, pending, ROUTING_TABLE, init_requested,
                   <<frameVars, cpuVars, lockVars, schedVars, bootVars, scenario>>>>

\* ipc_bridge::take_ipc_interrupt()
TakeIpcInterrupt ==
    /\ IPC_INTERRUPT_PENDING' = FALSE
    /\ ch_last' = [op |-> "take_ipc_interrupt", ret |-> IPC_INTERRUPT_PENDING]
    /\ UNCHANGED <<KERNEL_CHANNEL, call, pending, ROUTING_TABLE, init_requested,
                   <<frameVars, cpuVars, lockVars, schedVars, bootVars, scenario>>>>

RouteNext ==
    \/ BridgeInit
    \/ RegisterInitService
    \/ SendBootstrapMessage
    \/ ReceiveBootstrapMessage
    \/ HandleIpcTrap
    \/ TakeIpcInterrupt

SpecRoute == RouteInit /\ [][RouteNext]_vars

\* C10: a send_bootstrap_message call made while register_init_service has
\* not been called since ipc_bridge::init returns Unroutable and enqueues
\* nothing: the channel is left as it was, its length 0.
C10_UnroutedSend ==
    [][(ch_last'.op = "send_bootstrap_message" /\ ~init_requested)
        => /\ ch_last'.ret = [ok |-> FALSE, err |-> "Unroutable"]
           /\ KERNEL_CHANNEL' = KERNEL_CHANNEL
           /\ KERNEL_CHANNEL'.queue.len = 0]_vars

\* C10 witness: a send has returned Unroutable after an ipc_bridge::init
\* that followed a routed send (its payload is still in slot 0).
C10_Witness ==
    /\ ch_last.op = "send_bootstrap_message"
    /\ ch_last.ret = [ok |-> FALSE, err |-> "Unroutable"]
    /\ ~init_requested
    /\ KERNEL_CHANNEL.queue.slots[0].message.len = 4
    /\ KERNEL_CHANNEL.queue.len = 0

(***************************************************************************)
(* The calls of one context on a channel, each run to its return: any      *)
(* sequence of send, receive and reset on a short ring.                    *)
(***************************************************************************)
\* scenario.latest: per slot, the bytes of the latest send into it;
\* scenario.high: per slot, the length of the longest message it has held.
CallsInit ==
    /\ Idle({"boot", "frames", "lock", "sched", "route", "cpu"})
    /\ KERNEL_CHANNEL = Channel_new(SmallMessages)
    /\ call = NoCall
    /\ ch_last = [op |-> "none"]
    /\ pending = <<>>
    /\ scenario = [name |-> "calls", op |-> "none", bytes |-> <<>>,
                   ret |-> [ok |-> TRUE],
                   latest |-> [i \in 0 .. SmallMessages - 1 |-> <<>>],
                   high |-> [i \in 0 .. SmallMessages - 1 |-> 0]]

\* Channel::send(bytes)
CallSend ==
    /\ scenario.name = "calls"
    \* the payloads: empty, short, longer, of exactly MAX_PAYLOAD bytes and
    \* one byte too long
    /\ \E bytes \in {<<>>, <<1>>, <<2, 3>>, [i \in 1 .. MAX_PAYLOAD |-> 7],
                      [i \in 1 .. MAX_PAYLOAD + 1 |-> 4]} :
        LET r == Channel_send(KERNEL_CHANNEL, bytes)
            tail == KERNEL_CHANNEL.queue.tail
        IN  /\ KERNEL_CHANNEL' = r.chan
            /\ scenario' = [scenario EXCEPT
                  !.op = "send", !.bytes = bytes, !.ret = r.ret,
                  !.latest = IF r.ret.ok THEN [@ EXCEPT ![tail] = bytes] ELSE @,
                  !.high = IF r.ret.ok /\ Len(bytes) > @[tail]
                           THEN [@ EXCEPT ![tail] = Len(bytes)] ELSE @]
    /\ UNCHANGED <<frameVars, cpuVars, lockVars, schedVars, routeVars,
                   bootVars, call, ch_last, pending>>

\* Channel::receive(buffer)
CallReceive ==
    /\ scenario.name = "calls"
    /\ \E n \in BufferLengths :
        LET r == Channel_receive(KERNEL_CHANNEL, Zeroes(n))
        IN  /\ KERNEL_CHANNEL' = r.chan
            /\ scenario' = [scenario EXCEPT
                  !.op = "receive", !.bytes = Zeroes(n), !.ret = r.ret]
    /\ UNCHANGED <<frameVars, cpuVars, lockVars, schedVars, routeVars,
                   bootVars, call, ch_last, pending>>

\* Channel::reset()
CallReset ==
    /\ scenario.name = "calls"
    /\ KERNEL_CHANNEL' = Channel_reset(KERNEL_CHANNEL)
    /\ scenario' = [scenario EXCEPT
          !.op = "reset", !.bytes = <<>>, !.ret = [ok |-> TRUE]]
    /\ UNCHANGED <<frameVars, cpuVars, lockVars, schedVars, routeVars,
                   bootVars, call, ch_last, pending>>

SpecCalls ==
    CallsInit /\ [][CallSend \/ CallReceive \/ CallReset]_vars

C17_NoStaleBytes ==
    [][(scenario'.op = "receive" /\ scenario'.ret.ok) =>
        LET q == KERNEL_CHANNEL.queue
            sent == scenario.latest[q.head]
            n == Len(scenario'.bytes)
        IN  /\ q.slots[q.head].message = Message_from_slice(sent).message
            /\ scenario'.ret.count = (IF Len(sent) < n THEN Len(sent) ELSE n)
            /\ scenario'.ret.buffer =
                 [i \in 1 .. n |-> IF i <= Len(sent) THEN sent[i] ELSE 0]]_vars

\* C17 witness: a receive into a 16-byte buffer has returned the one byte of
\* the latest send from a slot that held a 64-byte message before.
C17_Witness ==
    /\ scenario.name = "calls"
    /\ scenario.op = "receive"
    /\ scenario.ret.ok
    /\ scenario.ret.count = 1
    /\ Len(scenario.ret.buffer) = 16
    /\ \E h \in DOMAIN scenario.high :
         /\ (h + 1) % SmallMessages = KERNEL_CHANNEL.queue.head
         /\ scenario.high[h] = MAX_PAYLOAD
         /\ scenario.latest[h] = <<1>>

(***************************************************************************)
(* The channel at its real size, filled and drained: any sequence of       *)
(* send(b"a") and receive into a 16-byte buffer on a fresh Channel.        *)
(***************************************************************************)
\* scenario.streak: the sends that have succeeded one after the other since
\* the channel was empty, or -1 once another call has come in between.
FillInit ==
    /\ Idle({"boot", "frames", "lock", "sched", "route", "cpu"})
    /\ KERNEL_CHANNEL = Channel_new(MAX_MESSAGES)
    /\ call = NoCall
    /\ ch_last = [op |-> "none"]
    /\ pending = <<>>
    /\ scenario = [name |-> "fill", op |-> "none", ret |-> [ok |-> TRUE],
                   streak |-> 0]

\* Channel::send(b"a")
FillSend ==
    /\ scenario.name = "fill"
    /\ LET r == Channel_send(KERNEL_CHANNEL, <<97>>)
       IN  /\ KERNEL_CHANNEL' = r.chan
           /\ scenario' = [name |-> "fill", op |-> "send", ret |-> r.ret,
                           streak |-> IF scenario.streak = -1 THEN -1
                                      ELSE IF r.ret.ok THEN scenario.streak + 1
                                      ELSE scenario.streak]
    /\ UNCHANGED <<frameVars, cpuVars, lockVars, schedVars, routeVars,
                   bootVars, call, ch_last, pending>>

\* Channel::receive(&mut [0u8; 16])
FillReceive ==
    /\ scenario.name = "fill"
    /\ LET r == Channel_receive(KERNEL_CHANNEL, Zeroes(16))
       IN  /\ KERNEL_CHANNEL' = r.chan
           /\ scenario' = [name |-> "fill", op |-> "receive", ret |-> r.ret,
                           streak |-> IF r.chan.queue.len = 0 THEN 0 ELSE -1]
    /\ UNCHANGED <<frameVars, cpuVars, lockVars, schedVars, routeVars,
                   bootVars, call, ch_last, pending>>

SpecFill ==
    FillInit /\ [][FillSend \/ FillReceive]_vars

\* C15: send on a channel holding MAX_MESSAGES (16) messages returns Full and
\* receive on an empty channel returns Empty, both leaving head, tail, len
\* and the slots unchanged; 16 successive sends on an empty channel succeed,
\* the 17th returns Full, and after one receive one more send succeeds.
C15_FullAndEmpty ==
    [][LET q == KERNEL_CHANNEL.queue
       IN  /\ (scenario'.op = "send") =>
                /\ (q.len = 16) =>
                     /\ scenario'.ret = [ok |-> FALSE, err |-> "Full"]
                     /\ KERNEL_CHANNEL' = KERNEL_CHANNEL
                /\ (q.len < 16) =>
                     /\ scenario'.ret = [ok |-> TRUE]
                     /\ KERNEL_CHANNEL'.queue.len = q.len + 1
                /\ (scenario.streak \in 0 .. 15) => scenario'.ret.ok
                /\ (scenario.streak = 16) => ~scenario'.ret.ok
                /\ (scenario.op = "receive" /\ scenario.ret.ok) => scenario'.ret.ok
           /\ (scenario'.op = "receive" /\ q.len = 0) =>
                /\ scenario'.ret.ok = FALSE
                /\ scenario'.ret.err = "Empty"
                /\ KERNEL_CHANNEL' = KERNEL_CHANNEL
           /\ (scenario'.op = "receive" /\ q.len > 0) =>
                /\ scenario'.ret.ok
                /\ KERNEL_CHANNEL'.queue.len = q.len - 1]_vars

\* C15 witness: the 17th of 17 successive sends on the empty channel has
\* returned Full, the ring holding 16 messages.
C15_Witness ==
    /\ scenario.name = "fill"
    /\ scenario.op = "send"
    /\ scenario.ret = [ok |-> FALSE, err |-> "Full"]
    /\ scenario.streak = 16
    /\ KERNEL_CHANNEL.queue.len = MAX_MESSAGES

(***************************************************************************)
(* The boot flow: kernel/tests/boot_smoke.rs (rustcore_entry, init_task),  *)
(* kernel/src/lib.rs (init), kernel/src/boot.rs and                        *)
(* services/init/src/lib.rs (bootstrap), on the statics at their real      *)
(* sizes.                                                                  *)
(***************************************************************************)
BOOTINFO_VERSION == 1

\* b"BOOT", b"INIT:READY" and b"INIT:FAIL"
BOOT_PAYLOAD == <<66, 79, 79, 84>>
INIT_READY == <<73, 78, 73, 84, 58, 82, 69, 65, 68, 89>>
INIT_FAIL == <<73, 78, 73, 84, 58, 70, 65, 73, 76>>

\* The length of the buffers of bootstrap() and rustcore_entry.
BOOT_BUFFER_LEN == 16

\* The handoff records the loader passes: the version the kernel was built
\* for or a later one, an empty memory map, and a boot filesystem, given by
\* what BootfsView::validate_manifest returns on it: a summary of one or two
\* services, or an error.
BootInfos ==
    [version : {BOOTINFO_VERSION, BOOTINFO_VERSION + 1},
     memory_map : {[base |-> 0, len |-> 0]},
     manifest : {[services |-> n, error |-> None] : n \in {1, 2}}
                   \cup {[services |-> 0, error |-> Some(e)] :
                           e \in {"MissingManifest", "Utf8", "InvalidFormat",
                                  "MissingArtifact", "Empty"}}]

\* FrameAllocator::apply_boot_info on a record whose memory map is empty
apply_boot_info_empty(n, info) ==
    reserve_range(reset_frames(n, "Free"), 0, BOOT_RESERVED_FRAMES)

\* boot::boot_info: a null pointer is None
boot_info(ptr) == IF ptr = {} THEN None ELSE ptr

\* A mutant of bootstrap: a manifest that does not validate is reported as
\* a failed receive, and nothing is received.
bootstrap_validated(c, info) ==
    LET manifest == IF info = None
                    THEN [services |-> 0, error |-> Some("MissingManifest")]
                    ELSE (CHOOSE i \in info : TRUE).manifest
        r == Channel_receive(c, Zeroes(BOOT_BUFFER_LEN))
    IN  IF manifest.error # None
        THEN [chan |-> c,
              outcome |-> [last_message_len |-> 0, receive_error |-> Some("Empty"),
                           manifest |-> manifest, buf |-> Zeroes(BOOT_BUFFER_LEN)]]
        ELSE [chan |-> r.chan,
              outcome |-> [last_message_len |-> IF r.ret.ok THEN r.ret.count ELSE 0,
                           receive_error |-> IF r.ret.ok THEN None
                                             ELSE Some(r.ret.err),
                           manifest |-> manifest,
                           buf |-> r.ret.buffer]]

\* services_init::bootstrap: the channel afterwards and the outcome.
bootstrap(c, info) ==
    LET manifest == IF info = None
                    THEN [services |-> 0, error |-> Some("MissingManifest")]
                    ELSE (CHOOSE i \in info : TRUE).manifest
        r == Channel_receive(c, Zeroes(BOOT_BUFFER_LEN))
    IN  [chan |-> r.chan,
         outcome |-> [last_message_len |-> IF r.ret.ok THEN r.ret.count ELSE 0,
                      receive_error |-> IF r.ret.ok THEN None ELSE Some(r.ret.err),
                      manifest |-> manifest,
                      buf |-> r.ret.buffer]]

\* The statics as they are built, before rustcore_entry runs; the interrupt
\* flag is whatever the loader left.
\* The timer interrupts the boot flow is followed through.
MaxTicks == 2

BootInit ==
    /\ Idle({"lock", "scenario"})
    /\ isr = [pc |-> "idle"]
    /\ interrupts \in BOOLEAN
    /\ FRAME_ALLOCATOR = reset_frames(TOTAL_FRAMES, "Free")
    /\ fr_last = [op |-> "none"]
    /\ outstanding = {}
    /\ ever_allocated = {}
    /\ net_allocated = 0
    /\ READY_QUEUE = ready_queue_reset(MAX_TASKS, 0)
    /\ run_pc = "outside"
    /\ current = None
    /\ sched_last = None
    /\ registered = <<>>
    /\ ran = <<>>
    /\ finished = {}
    /\ KERNEL_CHANNEL = Channel_new(MAX_MESSAGES)
    /\ call = NoCall
    /\ ch_last = [op |-> "none"]
    /\ pending = <<>>
    /\ ROUTING_TABLE = RoutingTable_new
    /\ IPC_INTERRUPT_PENDING = FALSE
    /\ init_requested = FALSE
    /\ BOOT_INFO = None
    /\ \E info \in BootInfos :
           boot = [pc |-> "entry", info |-> info, send_ret |-> None,
                   outcome |-> None, reply_ret |-> None, final |-> None,
                   exit |-> None, initialized |-> {}, ticks |-> 0]

\* kernel::init: boot::init(boot_info)
BootBootInit ==
    /\ boot.pc = "entry"
    /\ BOOT_INFO' = Some(boot.info)
    /\ boot' = [boot EXCEPT !.pc = "arch_init", !.initialized = @ \cup {"boot_info"}]
    /\ UNCHANGED <<FRAME_ALLOCATOR, interrupts, READY_QUEUE, run_pc, current,
                   KERNEL_CHANNEL, routeVars, bootGhosts>>

\* kernel::init: arch::init()
BootArchInit ==
    /\ boot.pc = "arch_init"
    /\ interrupts' = disable_interrupts(interrupts)
    /\ boot' = [boot EXCEPT !.pc = "memory_init", !.initialized = @ \cup {"arch"}]
    /\ UNCHANGED <<FRAME_ALLOCATOR, READY_QUEUE, run_pc, current,
                   KERNEL_CHANNEL, routeVars, BOOT_INFO, bootGhosts>>

\* kernel::init: memory::init(boot_info)
BootMemoryInit ==
    /\ boot.pc = "memory_init"
    /\ FRAME_ALLOCATOR' = apply_boot_info_empty(FrameCount(FRAME_ALLOCATOR.map),
                                                boot.info)
    /\ interrupts' = locked_statement("FRAME_ALLOCATOR", interrupts)
    /\ boot' = [boot EXCEPT !.pc = "ipc_bridge_init", !.initialized = @ \cup {"memory"}]
    /\ UNCHANGED <<READY_QUEUE, run_pc, current,
                   KERNEL_CHANNEL, routeVars, BOOT_INFO, bootGhosts>>

\* kernel::init: ipc_bridge::init()
BootIpcBridgeInit ==
    /\ boot.pc = "ipc_bridge_init"
    /\ KERNEL_CHANNEL' = Channel_reset(KERNEL_CHANNEL)
    /\ ROUTING_TABLE' = RoutingTable_clear(ROUTING_TABLE)
    /\ IPC_INTERRUPT_PENDING' = FALSE
    /\ init_requested' = FALSE
    /\ interrupts' = locked_statement("ROUTING_TABLE", interrupts)
    /\ boot' = [boot EXCEPT !.pc = "scheduler_init", !.initialized = @ \cup {"ipc"}]
    /\ UNCHANGED <<FRAME_ALLOCATOR, READY_QUEUE, run_pc, current,
                   BOOT_INFO, bootGhosts>>

\* kernel::init: scheduler::init()
BootSchedulerInit ==
    /\ boot.pc = "scheduler_init"
    /\ READY_QUEUE' = ready_queue_reset(TaskSlots(READY_QUEUE), READY_QUEUE.next_id)
    /\ interrupts' = locked_statement("READY_QUEUE", interrupts)
    /\ boot' = [boot EXCEPT !.pc = "enable_interrupts", !.initialized = @ \cup {"scheduler"}]
    /\ UNCHANGED <<FRAME_ALLOCATOR, run_pc, current,
                   KERNEL_CHANNEL, routeVars, BOOT_INFO, bootGhosts>>

\* kernel::init: arch::enable_interrupts()
BootEnableInterrupts ==
    /\ boot.pc = "enable_interrupts"
    /\ interrupts' = enable_interrupts(interrupts)
    /\ boot' = [boot EXCEPT !.pc = "register_init_service"]
    /\ UNCHANGED <<FRAME_ALLOCATOR, READY_QUEUE, run_pc, current,
                   KERNEL_CHANNEL, routeVars, BOOT_INFO, bootGhosts>>

\* rustcore_entry: kernel::ipc_bridge::register_init_service()
BootRegisterInitService ==
    /\ boot.pc = "register_init_service"
    /\ ROUTING_TABLE' = RoutingTable_mark_init_registered(ROUTING_TABLE)
    /\ init_requested' = TRUE
    /\ interrupts' = locked_statement("ROUTING_TABLE", interrupts)
    /\ boot' = [boot EXCEPT !.pc = "register"]
    /\ UNCHANGED <<FRAME_ALLOCATOR, READY_QUEUE, run_pc, current,
                   KERNEL_CHANNEL, IPC_INTERRUPT_PENDING, BOOT_INFO, bootGhosts>>

\* rustcore_entry: let _ = kernel::scheduler::register(init_task)
BootRegister ==
    /\ boot.pc = "register"
    /\ READY_QUEUE' = ReadyQueue_push(READY_QUEUE, "init_task").queue
    /\ interrupts' = locked_statement("READY_QUEUE", interrupts)
    /\ boot' = [boot EXCEPT !.pc = "send_bootstrap_message"]
    /\ UNCHANGED <<FRAME_ALLOCATOR, run_pc, current,
                   KERNEL_CHANNEL, routeVars, BOOT_INFO, bootGhosts>>

\* rustcore_entry: let _ = kernel::ipc_bridge::send_bootstrap_message(b"BOOT")
BootSendBootstrapMessage ==
    /\ boot.pc = "send_bootstrap_message"
    /\ LET r == send_bootstrap_message(ROUTING_TABLE, KERNEL_CHANNEL, BOOT_PAYLOAD)
       IN  /\ KERNEL_CHANNEL' = r.chan
           /\ boot' = [boot EXCEPT !.pc = "run", !.send_ret = Some(r.ret)]
    /\ interrupts' = locked_statement("ROUTING_TABLE", interrupts)
    /\ UNCHANGED <<FRAME_ALLOCATOR, READY_QUEUE, run_pc, current,
                   routeVars, BOOT_INFO, bootGhosts>>

\* rustcore_entry: kernel::scheduler::run() is entered
BootRunStart ==
    /\ boot.pc = "run"
    /\ run_pc = "outside"
    /\ run_pc' = "loop"
    /\ boot' = [boot EXCEPT !.pc = "running"]
    /\ UNCHANGED <<FRAME_ALLOCATOR, interrupts, READY_QUEUE, current,
                   KERNEL_CHANNEL, routeVars, BOOT_INFO, bootGhosts>>

\* scheduler::run: one turn of the loop; the task popped is invoked, or the
\* loop breaks and run() returns.
BootRunPop ==
    /\ boot.pc = "running"
    /\ run_pc = "loop"
    /\ LET r == ReadyQueue_pop(READY_QUEUE)
       IN  /\ READY_QUEUE' = r.queue
           /\ current' = r.ret
           /\ run_pc' = IF r.ret = None THEN "outside" ELSE "task"
           /\ boot' = [boot EXCEPT !.pc = IF r.ret = None THEN "final_receive"
                                          ELSE "running"]
    /\ interrupts' = locked_statement("READY_QUEUE", interrupts)
    /\ UNCHANGED <<FRAME_ALLOCATOR, KERNEL_CHANNEL, routeVars,
                   BOOT_INFO, bootGhosts>>

\* init_task: services_init::bootstrap(channel, kernel::boot::boot_info())
InitTaskBootstrap ==
    /\ boot.pc = "running"
    /\ run_pc = "task"
    /\ boot.outcome = None
    /\ \E tcb \in current : tcb.entry = "init_task"
    /\ LET r == bootstrap(KERNEL_CHANNEL, boot_info(BOOT_INFO))
       IN  /\ KERNEL_CHANNEL' = r.chan
           /\ boot' = [boot EXCEPT !.outcome = Some(r.outcome)]
    /\ UNCHANGED <<FRAME_ALLOCATOR, interrupts, READY_QUEUE, run_pc, current,
                   routeVars, BOOT_INFO, bootGhosts>>

\* init_task: the reply is chosen and sent, and the task returns to run().
InitTaskReply ==
    /\ boot.pc = "running"
    /\ run_pc = "task"
    /\ boot.outcome # None
    /\ \E outcome \in boot.outcome :
        LET payload == IF outcome.receive_error = None THEN INIT_READY
                       ELSE INIT_FAIL
            r == Channel_send(KERNEL_CHANNEL, payload)
        IN  /\ KERNEL_CHANNEL' = r.chan
            /\ boot' = [boot EXCEPT !.reply_ret = Some(r.ret)]
    /\ run_pc' = "loop"
    /\ current' = None
    /\ UNCHANGED <<FRAME_ALLOCATOR, interrupts, READY_QUEUE, routeVars,
                   BOOT_INFO, bootGhosts>>

\* rustcore_entry: receive_bootstrap_message(&mut buf) after run() returned,
\* and the exit it selects.
BootFinalReceive ==
    /\ boot.pc = "final_receive"
    /\ LET r == receive_bootstrap_message(KERNEL_CHANNEL, Zeroes(BOOT_BUFFER_LEN))
       IN  /\ KERNEL_CHANNEL' = r.chan
           /\ boot' = [boot EXCEPT !.pc = "exit", !.final = Some(r.ret),
                         !.exit = Some(IF r.ret.ok THEN "success" ELSE "failure")]
    /\ UNCHANGED <<FRAME_ALLOCATOR, interrupts, READY_QUEUE, run_pc, current,
                   routeVars, BOOT_INFO, bootGhosts>>

\* The timer vector is taken and timer_trap runs to its return: possible
\* once arch::init has loaded the IDT, while the interrupt flag is set.
BootTimerTrap ==
    /\ boot.pc \notin {"none", "exit"}
    /\ "arch" \in boot.initialized
    /\ interrupts
    /\ boot.ticks < MaxTicks
    /\ interrupts' = iret(gate_entry(interrupts))
    /\ boot' = [boot EXCEPT !.ticks = @ + 1]
    /\ UNCHANGED <<FRAME_ALLOCATOR, READY_QUEUE, run_pc, current,
                   KERNEL_CHANNEL, routeVars, BOOT_INFO, bootGhosts>>

BootNext ==
    \/ BootBootInit
    \/ BootArchInit
    \/ BootMemoryInit
    \/ BootIpcBridgeInit
    \/ BootSchedulerInit
    \/ BootEnableInterrupts
    \/ BootRegisterInitService
    \/ BootRegister
    \/ BootSendBootstrapMessage
    \/ BootRunStart
    \/ BootRunPop
    \/ InitTaskBootstrap
    \/ InitTaskReply
    \/ BootFinalReceive
    \/ BootTimerTrap

SpecBoot == BootInit /\ [][BootNext]_vars

\* C9: in the boot flow send_bootstrap_message("BOOT") returns Ok, the init
\* task's receive yields the 4 bytes "BOOT", and the receive_bootstrap_message
\* into a 16-byte buffer after run() has returned yields the 10 bytes
\* "INIT:READY".
C9_BootFlow ==
    /\ (boot.pc \in {"run", "running", "final_receive", "exit"})
         => boot.send_ret = Some([ok |-> TRUE])
    /\ \A outcome \in boot.outcome :
         /\ outcome.receive_error = None
         /\ outcome.last_message_len = Len(BOOT_PAYLOAD)
         /\ Prefix(outcome.buf, 4) = BOOT_PAYLOAD
    /\ (boot.pc \in {"final_receive", "exit"}) => boot.outcome # None
    /\ (boot.pc = "exit")
         => \E final \in boot.final :
              /\ final.ok
              /\ final.count = Len(INIT_READY)
              /\ Prefix(final.buffer, final.count) = INIT_READY
              /\ Len(final.buffer) = BOOT_BUFFER_LEN

\* C9 witness: the flow has reached its exit, on a handoff record whose
\* manifest does not validate, with all three results recorded.
C9_Witness ==
    /\ boot.pc = "exit"
    /\ boot.info.manifest.error # None
    /\ boot.send_ret # None
    /\ boot.outcome # None
    /\ boot.final # None
    /\ boot.exit = Some("success")

\* BootInfo::is_compatible; nothing in the kernel calls it.
is_compatible(info) == info.version = BOOTINFO_VERSION

\* C11: when the handoff record's version differs from BOOTINFO_VERSION,
\* kernel initialization halts: the frame allocator is never seeded from the
\* record, interrupts are never enabled after arch::init has disabled them,
\* and no task is run.
C11_VersionMismatchHalts ==
    (boot.pc # "none" /\ ~is_compatible(boot.info))
        => /\ FRAME_ALLOCATOR = reset_frames(TOTAL_FRAMES, "Free")
           /\ (boot.pc \notin {"entry", "arch_init"}) => ~interrupts
           /\ run_pc = "outside"
           /\ boot.outcome = None

\* The subsystems kernel::init initializes before it enables interrupts.
InitSubsystems == {"boot_info", "arch", "memory", "ipc", "scheduler"}

\* C20: during kernel init the interrupt flag is turned on only by the final
\* enable_interrupts, after the boot-info pointer, the architecture state,
\* the frame allocator, the channel and routing table and the scheduler queue
\* have been initialized; until then, from arch::init on, interrupts stay
\* disabled through every lock acquisition and no handler has run.
C20_InterruptsEnabledLast ==
    /\ [](boot.pc \in {"memory_init", "ipc_bridge_init", "scheduler_init",
                       "enable_interrupts"} => ~interrupts)
    /\ [](boot.pc \in {"entry", "arch_init", "memory_init", "ipc_bridge_init",
                       "scheduler_init", "enable_interrupts"} => boot.ticks = 0)
    /\ []((interrupts /\ "arch" \in boot.initialized)
              => boot.initialized = InitSubsystems)
    /\ [][(~interrupts /\ interrupts')
              => /\ boot.pc = "enable_interrupts"
                 /\ boot.initialized = InitSubsystems]_vars

\* C20 witness: enable_interrupts has just run, every subsystem initialized
\* and the frame map seeded, and a timer interrupt has been taken since.
C20_Witness ==
    /\ boot.pc = "register_init_service"
    /\ interrupts
    /\ boot.initialized = InitSubsystems
    /\ boot.ticks = 1
    /\ FRAME_ALLOCATOR = memory_init_none(TOTAL_FRAMES)

(***************************************************************************)
(* The interrupt handlers of kernel/src/arch/x86_64/mod.rs (timer_trap,    *)
(* ipc_trap, acknowledge, the callback slots) with the IPC-pending flag of *)
(* kernel/src/ipc_bridge.rs, stepped statement by statement.               *)
(***************************************************************************)
\* The interrupts of each vector one behaviour is followed through.
MaxTrapTicks == 2
MaxPendingTraps == 2

\* A mutant of the increment: the counter is left as it is.
tick_increment_skipped(ticks) == ticks

\* timer_trap: ptr.write(ptr.read().wrapping_add(1)); the counter is followed
\* far below 2^64.
tick_increment(ticks) == ticks + 1

\* acknowledge(vector): the end-of-interrupt writes it issues.
acknowledge(vector) ==
    CASE vector = "Timer"    -> <<"eoi">>
      [] vector = "Spurious" -> <<"eoi">>
      [] OTHER               -> <<>>

\* A mutant of take_ipc_interrupt: the flag is read and left as it is.
take_ipc_interrupt_load(flag) == [flag |-> flag, ret |-> flag]

\* ipc_bridge::take_ipc_interrupt: swap(false); the flag afterwards and the
\* value returned.
take_ipc_interrupt(flag) == [flag |-> FALSE, ret |-> flag]

\* The state after arch::init and ipc_bridge::init, interrupts enabled: no
\* timer callback, handle_ipc_trap in the IPC slot, the flag clear.
\* scenario.trace lists what the handler in progress (or the last one) has
\* done; scenario.handled counts the IPC traps whose callback has run since
\* the last take.
TrapInit ==
    /\ Idle({"boot", "frames", "lock", "sched", "chan"})
    /\ ROUTING_TABLE = RoutingTable_new
    /\ init_requested = FALSE
    /\ IPC_INTERRUPT_PENDING = FALSE
    /\ interrupts = TRUE
    /\ isr = [pc |-> "idle"]
    /\ scenario = [name |-> "trap", op |-> "none", TIMER_TICKS |-> 0,
                   TIMER_CALLBACK |-> None,
                   IPC_CALLBACK |-> Some("handle_ipc_trap"),
                   trace |-> <<>>, seen |-> None, handled |-> 0,
                   take_ret |-> None]

\* arch::register_timer_handler(callback), the callback one that reads
\* timer_ticks()
TrapRegisterTimerHandler ==
    /\ scenario.name = "trap"
    /\ isr.pc = "idle"
    /\ scenario' = [scenario EXCEPT !.op = "register_timer_handler",
                      !.TIMER_CALLBACK = Some("read_ticks")]
    /\ UNCHANGED <<interrupts, isr, IPC_INTERRUPT_PENDING, frameVars, lockVars,
                   schedVars, chanVars, ROUTING_TABLE, init_requested, bootVars>>

\* ipc_bridge::take_ipc_interrupt(), called by the task
TrapTakeIpcInterrupt ==
    /\ scenario.name = "trap"
    /\ isr.pc = "idle"
    /\ LET r == take_ipc_interrupt(IPC_INTERRUPT_PENDING)
       IN  /\ IPC_INTERRUPT_PENDING' = r.flag
           /\ scenario' = [scenario EXCEPT !.op = "take_ipc_interrupt",
                             !.take_ret = Some(r.ret), !.handled = 0]
    /\ UNCHANGED <<interrupts, isr, frameVars, lockVars, schedVars, chanVars,
                   ROUTING_TABLE, init_requested, bootVars>>

\* The timer vector or the IPC vector is taken: entry to timer_trap or to
\* ipc_trap through its gate.
TrapEnter ==
    /\ scenario.name = "trap"
    /\ isr.pc = "idle"
    /\ interrupts
    /\ \E vector \in {"Timer", "Ipc"} :
          /\ vector = "Timer" => scenario.TIMER_TICKS < MaxTrapTicks
          /\ vector = "Ipc" => scenario.handled < MaxPendingTraps
          /\ isr' = [pc |-> IF vector = "Timer" THEN "increment" ELSE "callback",
                     vector |-> vector, entry_ticks |-> scenario.TIMER_TICKS]
    /\ interrupts' = gate_entry(interrupts)
    /\ scenario' = [scenario EXCEPT !.trace = <<>>, !.seen = None]
    /\ UNCHANGED <<IPC_INTERRUPT_PENDING, frameVars, lockVars, schedVars,
                   chanVars, ROUTING_TABLE, init_requested, bootVars>>

\* timer_trap: the tick counter is incremented.
TimerTrapIncrement ==
    /\ isr.pc = "increment"
    /\ scenario' = [scenario EXCEPT
                      !.TIMER_TICKS = tick_increment(@),
                      !.trace = Append(@, "increment")]
    /\ isr' = [isr EXCEPT !.pc = "callback"]
    /\ UNCHANGED <<interrupts, IPC_INTERRUPT_PENDING, frameVars, lockVars,
                   schedVars, chanVars, ROUTING_TABLE, init_requested, bootVars>>

\* timer_trap / ipc_trap: if let Some(func) = load_callback(..) { func() }.
\* The timer callback reads the tick counter; the IPC callback,
\* handle_ipc_trap, stores true in the flag.
TrapCallback ==
    /\ isr.pc = "callback"
    /\ IF isr.vector = "Timer"
       THEN /\ scenario' = IF scenario.TIMER_CALLBACK = None
                           THEN scenario
                           ELSE [scenario EXCEPT
                                   !.trace = Append(@, "callback"),
                                   !.seen = Some(scenario.TIMER_TICKS)]
            /\ UNCHANGED IPC_INTERRUPT_PENDING
       ELSE IF scenario.IPC_CALLBACK = None
       THEN UNCHANGED <<scenario, IPC_INTERRUPT_PENDING>>
       ELSE /\ IPC_INTERRUPT_PENDING' = TRUE
            /\ scenario' = [scenario EXCEPT !.trace = Append(@, "callback"),
                                            !.handled = @ + 1]
    /\ isr' = [isr EXCEPT !.pc = "acknowledge"]
    /\ UNCHANGED <<interrupts, frameVars, lockVars, schedVars, chanVars,
                   ROUTING_TABLE, init_requested, bootVars>>

\* timer_trap / ipc_trap: acknowledge(vector)
TrapAcknowledge ==
    /\ isr.pc = "acknowledge"
    /\ scenario' = [scenario EXCEPT !.trace = @ \o acknowledge(isr.vector)]
    /\ isr' = [isr EXCEPT !.pc = "iret"]
    /\ UNCHANGED <<interrupts, IPC_INTERRUPT_PENDING, frameVars, lockVars,
                   schedVars, chanVars, ROUTING_TABLE, init_requested, bootVars>>

\* The handler returns to the interrupted task.
TrapReturn ==
    /\ scenario.name = "trap"
    /\ isr.pc = "iret"
    /\ interrupts' = iret(interrupts)
    /\ isr' = [pc |-> "idle"]
    /\ UNCHANGED <<scenario, IPC_INTERRUPT_PENDING, frameVars, lockVars,
                   schedVars, chanVars, ROUTING_TABLE, init_requested, bootVars>>

TrapNext ==
    \/ TrapRegisterTimerHandler
    \/ TrapTakeIpcInterrupt
    \/ TrapEnter
    \/ TimerTrapIncrement
    \/ TrapCallback
    \/ TrapAcknowledge
    \/ TrapReturn

SpecTrap == TrapInit /\ [][TrapNext]_vars

\* C21: in timer_trap the tick counter is incremented before the callback is
\* dispatched: a callback that reads the counter sees the value at entry
\* plus one.
C21_TickBeforeCallback ==
    (scenario.name = "trap" /\ isr.pc # "idle" /\ isr.vector = "Timer"
        /\ \E j \in 1 .. Len(scenario.trace) : scenario.trace[j] = "callback")
        => /\ \A j \in 1 .. Len(scenario.trace) :
                 scenario.trace[j] = "callback"
                    => \E i \in 1 .. j - 1 : scenario.trace[i] = "increment"
           /\ scenario.seen = Some(isr.entry_ticks + 1)

\* C21 witness: in the second timer interrupt the callback has run and read 2.
C21_Witness ==
    /\ isr.pc = "acknowledge"
    /\ isr.vector = "Timer"
    /\ isr.entry_ticks = 1
    /\ scenario.trace = <<"increment", "callback">>
    /\ scenario.seen = Some(2)

\* C22: the timer vector and the IPC vector call their callback only after
\* the interrupt has been acknowledged: the end-of-interrupt comes before the
\* callback.
C22_AcknowledgeBeforeCallback ==
    scenario.name = "trap"
        => \A j \in 1 .. Len(scenario.trace) :
              scenario.trace[j] = "callback"
                 => \E i \in 1 .. j - 1 : scenario.trace[i] = "eoi"

\* C27: take_ipc_interrupt returns true exactly when the callback of an IPC
\* trap has run since the previous take (or since ipc_bridge::init) and
\* clears the flag in the same step, so that a second take with no trap in
\* between returns false; a trap handled is reported by the next take: while
\* it is unreported the flag is set.
C27_TakeIpcInterrupt ==
    /\ [](scenario.name = "trap"
            => (IPC_INTERRUPT_PENDING <=> scenario.handled > 0))
    /\ [][(isr.pc = "idle" /\ isr'.pc = "idle"
             /\ scenario'.op = "take_ipc_interrupt")
            => /\ scenario'.take_ret = Some(scenario.handled > 0)
               /\ ~IPC_INTERRUPT_PENDING'
               /\ (scenario.op = "take_ipc_interrupt" /\ scenario.handled = 0)
                    => scenario'.take_ret = Some(FALSE)]_vars

\* C27 witness: a take has returned true, and a further trap has been handled
\* since.
C27_Witness ==
    /\ scenario.name = "trap"
    /\ scenario.op = "take_ipc_interrupt"
    /\ scenario.take_ret = Some(TRUE)
    /\ scenario.handled = 1
    /\ IPC_INTERRUPT_PENDING
    /\ isr.pc = "idle"

(***************************************************************************)
(* The boot filesystem of services/init/src/bootfs.rs.  An extent, like a  *)
(* text, is the sequence of its bytes; offsets count from 0 as in the      *)
(* source.                                                                 *)
(***************************************************************************)
\* b"RCFS"
MAGIC == <<82, 67, 70, 83>>

\* "services.manifest"
SERVICES_MANIFEST ==
    <<115, 101, 114, 118, 105, 99, 101, 115, 46, 109, 97, 110, 105, 102, 101, 115, 116>>

\* "service:"
SERVICE_PREFIX == <<115, 101, 114, 118, 105, 99, 101, 58>>

\* The entries an extent is assembled from, and the lines a manifest is
\* assembled from, at most.
MaxEntries == 2
MaxLines == 3

\* u16::from_le_bytes(..) as usize.  A usize is held in two halves (the value
\* is lo + 65536 * hi), so that a u32 with its top bit set is a value the
\* model can hold.
u16_from_le_bytes(b0, b1) == [lo |-> b0 + 256 * b1, hi |-> 0]

\* u32::from_le_bytes(..) as usize
u32_from_le_bytes(b0, b1, b2, b3) == [lo |-> b0 + 256 * b1, hi |-> b2 + 256 * b3]

\* A mutant of the bounds check: nothing overruns.
overruns_never(offset, count, len) == FALSE

\* self.offset + count > self.data.len(), in usize arithmetic (no wrap: the
\* extents followed are shorter than 65536 bytes).
overruns(offset, count, len) == count.hi > 0 \/ offset + count.lo > len

\* data[i]; an index outside the slice panics in the source and reads as 0
\* here, the reads recorded telling whether one is made.
Index(data, i) == IF i >= 0 /\ i < Len(data) THEN data[i + 1] ELSE 0

\* &data[from..to]
Slice(data, from, to) == [i \in 1 .. (to - from) |-> Index(data, from + i - 1)]

\* str::from_utf8(bytes): the text, if the bytes are UTF-8
str_from_utf8(bytes) ==
    LET at(i) == IF i <= Len(bytes) THEN bytes[i] ELSE 0
        continuation(b) == b >= 128 /\ b <= 191
        RECURSIVE valid_from(_)
        valid_from(i) ==
            IF i > Len(bytes) THEN TRUE
            ELSE LET b == bytes[i]
                 IN  CASE b < 128 -> valid_from(i + 1)
                       [] b >= 194 /\ b <= 223 ->
                            continuation(at(i + 1)) /\ valid_from(i + 2)
                       [] b >= 224 /\ b <= 239 ->
                            /\ continuation(at(i + 1))
                            /\ b = 224 => at(i + 1) >= 160
                            /\ b = 237 => at(i + 1) <= 159
                            /\ continuation(at(i + 2))
                            /\ valid_from(i + 3)
                       [] b >= 240 /\ b <= 244 ->
                            /\ continuation(at(i + 1))
                            /\ b = 240 => at(i + 1) >= 144
                            /\ b = 244 => at(i + 1) <= 143
                            /\ continuation(at(i + 2))
                            /\ continuation(at(i + 3))
                            /\ valid_from(i + 4)
                       [] OTHER -> FALSE
    IN  IF valid_from(1) THEN Some(bytes) ELSE None

\* BootfsIter::new: the iterator and the offsets it has read
BootfsIter_new(data) ==
    LET HEADER_LEN == 8
    IN  IF Len(data) < HEADER_LEN
        THEN [iter |-> None, reads |-> {}]
        ELSE IF Slice(data, 0, 4) # MAGIC
        THEN [iter |-> None, reads |-> 0 .. 3]
        ELSE IF u16_from_le_bytes(Index(data, 4), Index(data, 5)).lo # 1
        THEN [iter |-> None, reads |-> 0 .. 5]
        ELSE [iter |-> Some([offset |-> HEADER_LEN,
                             remaining |-> u16_from_le_bytes(Index(data, 6),
                                                             Index(data, 7)).lo]),
              reads |-> 0 .. 7]

\* A mutant of next: an entry is returned whether its name is UTF-8 or not.
BootfsIter_next_lossy(data, it) ==
    LET len == Len(data)
        at_name_len == it.offset
        name_len == u16_from_le_bytes(Index(data, at_name_len),
                                      Index(data, at_name_len + 1))
        at_name == at_name_len + 2
        name_bytes == Slice(data, at_name, at_name + name_len.lo)
        at_size == at_name + name_len.lo
        size == u32_from_le_bytes(Index(data, at_size), Index(data, at_size + 1),
                                  Index(data, at_size + 2), Index(data, at_size + 3))
        at_payload == at_size + 4
        payload == Slice(data, at_payload, at_payload + size.lo)
        after == at_payload + size.lo
    IN  IF it.remaining = 0
        THEN [iter |-> it, item |-> None, reads |-> {}]
        ELSE IF overruns(at_name_len, [lo |-> 2, hi |-> 0], len)
        THEN [iter |-> it, item |-> None, reads |-> {}]
        ELSE IF overruns(at_name, name_len, len)
        THEN [iter |-> [it EXCEPT !.offset = at_name], item |-> None,
              reads |-> at_name_len .. (at_name - 1)]
        ELSE IF overruns(at_size, [lo |-> 4, hi |-> 0], len)
        THEN [iter |-> [it EXCEPT !.offset = at_size], item |-> None,
              reads |-> at_name_len .. (at_size - 1)]
        ELSE IF overruns(at_payload, size, len)
        THEN [iter |-> [it EXCEPT !.offset = at_payload], item |-> None,
              reads |-> at_name_len .. (at_payload - 1)]
        ELSE [iter |-> [offset |-> after, remaining |-> it.remaining - 1],
              item |-> Some([name |-> name_bytes, data |-> payload]),
              reads |-> at_name_len .. (after - 1)]

\* BootfsIter::next: the iterator afterwards, the entry returned, if any, and
\* the offsets read or handed out in a slice
BootfsIter_next(data, it) ==
    LET len == Len(data)
        at_name_len == it.offset
        name_len == u16_from_le_bytes(Index(data, at_name_len),
                                      Index(data, at_name_len + 1))
        at_name == at_name_len + 2
        name_bytes == Slice(data, at_name, at_name + name_len.lo)
        at_size == at_name + name_len.lo
        size == u32_from_le_bytes(Index(data, at_size), Index(data, at_size + 1),
                                  Index(data, at_size + 2), Index(data, at_size + 3))
        at_payload == at_size + 4
        payload == Slice(data, at_payload, at_payload + size.lo)
        after == at_payload + size.lo
        name == str_from_utf8(name_bytes)
    IN  IF it.remaining = 0
        THEN [iter |-> it, item |-> None, reads |-> {}]
        ELSE IF overruns(at_name_len, [lo |-> 2, hi |-> 0], len)
        THEN [iter |-> it, item |-> None, reads |-> {}]
        ELSE IF overruns(at_name, name_len, len)
        THEN [iter |-> [it EXCEPT !.offset = at_name], item |-> None,
              reads |-> at_name_len .. (at_name - 1)]
        ELSE IF overruns(at_size, [lo |-> 4, hi |-> 0], len)
        THEN [iter |-> [it EXCEPT !.offset = at_size], item |-> None,
              reads |-> at_name_len .. (at_size - 1)]
        ELSE IF overruns(at_payload, size, len)
        THEN [iter |-> [it EXCEPT !.offset = at_payload], item |-> None,
              reads |-> at_name_len .. (at_payload - 1)]
        ELSE [iter |-> [offset |-> after, remaining |-> it.remaining - 1],
              item |-> IF name = None THEN None
                       ELSE Some([name |-> name_bytes, data |-> payload]),
              reads |-> at_name_len .. (after - 1)]

\* A mutant of find_entry: an entry, empty, is found under every name.
find_entry_always(extent, name) == Some(<<>>)

\* BootfsView::find_entry, with entries() and slice(): no slice for an extent
\* of length 0
find_entry(extent, name) ==
    LET it == BootfsIter_new(extent).iter
        RECURSIVE from(_)
        from(i) ==
            LET r == BootfsIter_next(extent, i)
                entry == CHOOSE e \in r.item : TRUE
            IN  IF r.item = None THEN None
                ELSE IF entry.name = name THEN Some(entry.data)
                ELSE from(r.iter)
    IN  IF Len(extent) = 0 \/ it = None THEN None
        ELSE from(CHOOSE i \in it : TRUE)

\* str::split(c): the pieces between the separators, one more than there are
\* separators
str_split(text, c) ==
    LET RECURSIVE split(_)
        split(t) ==
            LET found == {i \in 1 .. Len(t) : t[i] = c}
                i == Min(found)
            IN  IF found = {} THEN <<t>>
                ELSE <<SubSeq(t, 1, i - 1)>> \o split(SubSeq(t, i + 1, Len(t)))
    IN  split(text)

\* str::lines: the text cut after every '\n'; a line loses that '\n' and a
\* '\r' before it, and nothing follows the last '\n'
str_lines(text) ==
    LET pieces == str_split(text, 10)
        ended(k) == k < Len(pieces)
        line(k) == IF ended(k) /\ pieces[k] # <<>> /\ pieces[k][Len(pieces[k])] = 13
                   THEN SubSeq(pieces[k], 1, Len(pieces[k]) - 1)
                   ELSE pieces[k]
        count == IF pieces[Len(pieces)] = <<>> THEN Len(pieces) - 1 ELSE Len(pieces)
    IN  [k \in 1 .. count |-> line(k)]

\* A mutant of trim: the text as it is.
str_trim_none(text) == text

\* str::trim: the text without the white space at either end (of the white
\* space of char::is_whitespace, the characters below U+0080: the manifests
\* followed hold no other)
str_trim(text) ==
    LET inner == {i \in 1 .. Len(text) : text[i] \notin {9, 10, 11, 12, 13, 32}}
    IN  IF inner = {} THEN <<>>
        ELSE SubSeq(text, Min(inner), CHOOSE i \in inner : \A j \in inner : j <= i)

\* parse_service_line
parse_service_line(line) ==
    LET stripped == Len(line) >= Len(SERVICE_PREFIX)
                      /\ SubSeq(line, 1, Len(SERVICE_PREFIX)) = SERVICE_PREFIX
        rest == SubSeq(line, Len(SERVICE_PREFIX) + 1, Len(line))
        parts == str_split(rest, 58)
        name == str_trim(parts[1])
        artifact == str_trim(parts[2])
        entry == str_trim(parts[3])
        caps == IF Len(parts) >= 4 THEN str_trim(parts[4]) ELSE <<>>
    IN  IF ~stripped THEN [ok |-> FALSE, err |-> "InvalidFormat"]
        ELSE IF Len(parts) < 3 THEN [ok |-> FALSE, err |-> "InvalidFormat"]
        ELSE IF Len(parts) >= 5 THEN [ok |-> FALSE, err |-> "InvalidFormat"]
        ELSE IF name = <<>> \/ artifact = <<>> \/ entry = <<>>
        THEN [ok |-> FALSE, err |-> "InvalidFormat"]
        ELSE [ok |-> TRUE, name |-> name, artifact |-> artifact, entry |-> entry,
              capabilities |-> caps]

\* BootfsView::validate_manifest, with ManifestSummary::ok and ::error;
\* services is followed far below 2^32, where saturating_add stops.
validate_manifest(extent) ==
    LET ok(services) == [services |-> services, error |-> None]
        error(e) == [services |-> 0, error |-> Some(e)]
        bytes == find_entry(extent, SERVICES_MANIFEST)
        manifest == str_from_utf8(CHOOSE b \in bytes : TRUE)
        RECURSIVE loop(_, _, _)
        loop(lines, services, has_service) ==
            IF lines = <<>>
            THEN IF ~has_service THEN error("Empty") ELSE ok(services)
            ELSE LET line == str_trim(Head(lines))
                     descriptor == parse_service_line(line)
                 IN  IF line = <<>> \/ line[1] = 35
                     THEN loop(Tail(lines), services, has_service)
                     ELSE IF ~descriptor.ok THEN error(descriptor.err)
                     ELSE IF descriptor.artifact = <<>>
                               \/ find_entry(extent, descriptor.artifact) = None
                     THEN error("MissingArtifact")
                     ELSE loop(Tail(lines), services + 1, TRUE)
    IN  IF bytes = None THEN error("MissingManifest")
        ELSE IF manifest = None THEN error("Utf8")
        ELSE loop(str_lines(CHOOSE m \in manifest : TRUE), 0, FALSE)

\* The extents find_entry is followed on: no bytes at all, a truncated
\* header, a wrong magic, a wrong version, and well-formed headers, whose
\* entry_count may be larger than the entries present, before up to
\* MaxEntries entries and three more bytes or none.  An entry is as a loader,
\* or anything else, may have written it: a name of one byte that may not be
\* UTF-8, an empty name or a name length of 0xFFFF, before a size and the
\* data, which may be missing or short of the size (0xFF000001).
Extents ==
    LET data == {<<1, 0, 0, 0, 7>>, <<1, 0, 0, 0>>, <<1, 0, 0, 255>>}
        entries ==
            { <<1, 0>> \o name \o end : name \in {<<97>>, <<98>>, <<255>>}, end \in data }
                \cup { <<0, 0>> \o end : end \in data }
                \cup { <<255, 255, 97>> }
        RECURSIVE bodies(_)
        bodies(n) ==
            IF n = 0 THEN {<<>>}
            ELSE bodies(n - 1) \cup { b \o e : b \in bodies(n - 1), e \in entries }
    IN  {<<>>, <<82, 67, 70>>, <<82, 67, 70, 83, 1, 0, 1>>,
         <<82, 67, 70, 88, 1, 0, 1, 0>>, <<82, 67, 70, 83, 2, 0, 1, 0>>}
            \cup { MAGIC \o <<1, 0, count, 0>> \o body \o rest :
                     count \in 0 .. MaxEntries + 1, body \in bodies(MaxEntries),
                     rest \in {<<>>, <<0, 0, 0>>} }

\* A boot filesystem as new and next read it: magic, version 1, the count,
\* and for each entry the length of the name, the name, the length of the
\* data (below 65536) and the data, the numbers little-endian.
EncodeBootfs(entries) ==
    LET le16(n) == <<n % 256, n \div 256>>
        RECURSIVE encode(_)
        encode(es) ==
            IF es = <<>> THEN <<>>
            ELSE le16(Len(Head(es).name)) \o Head(es).name
                    \o le16(Len(Head(es).data)) \o <<0, 0>> \o Head(es).data
                    \o encode(Tail(es))
    IN  MAGIC \o le16(1) \o le16(Len(entries)) \o encode(entries)

\* The boot filesystems validate_manifest is followed on, with the lines of
\* the manifest they were assembled from: the artifacts "a" and "b" and,
\* before or after them, a manifest of up to MaxLines lines, ended by LF or
\* by CR LF, the last line ended or not; and extents without a manifest
\* (none, the artifacts only, no entry, another version).  The lines:
\*   service lines      "service:f:a:m" and " service:g : b:m:c,d " (a
\*                      capability field, white space);
\*   ignored lines      "# x", the empty line and "  #";
\*   corrupted lines, with the error each stands for: "svc:f:a:m",
\*                      "service:f:a", "service:f:a:m:c:d", "service::a:m",
\*                      "service:f: :m", "service:f:a:" (InvalidFormat),
\*                      "service:f:x:m" (MissingArtifact: no entry "x") and
\*                      "service:f:a:" 0xFF (Utf8).
ManifestInputs ==
    LET artifacts == << [name |-> <<97>>, data |-> <<1, 2>>],
                        [name |-> <<98>>, data |-> <<>>] >>
        line(kind, text) == [kind |-> kind, text |-> text]
        lines ==
            { line("service", SERVICE_PREFIX \o <<102, 58, 97, 58, 109>>),
              line("service", <<32>> \o SERVICE_PREFIX
                                \o <<103, 32, 58, 32, 98, 58, 109, 58, 99, 44, 100, 32>>),
              line("ignored", <<35, 32, 120>>),
              line("ignored", <<>>),
              line("ignored", <<32, 32, 35>>),
              line("InvalidFormat", <<115, 118, 99, 58, 102, 58, 97, 58, 109>>),
              line("InvalidFormat", SERVICE_PREFIX \o <<102, 58, 97>>),
              line("InvalidFormat",
                   SERVICE_PREFIX \o <<102, 58, 97, 58, 109, 58, 99, 58, 100>>),
              line("InvalidFormat", SERVICE_PREFIX \o <<58, 97, 58, 109>>),
              line("InvalidFormat", SERVICE_PREFIX \o <<102, 58, 32, 58, 109>>),
              line("InvalidFormat", SERVICE_PREFIX \o <<102, 58, 97, 58>>),
              line("MissingArtifact", SERVICE_PREFIX \o <<102, 58, 120, 58, 109>>),
              line("Utf8", SERVICE_PREFIX \o <<102, 58, 97, 58, 255>>) }
        RECURSIVE manifests(_)
        manifests(n) ==
            IF n = 0 THEN {<<>>}
            ELSE manifests(n - 1)
                    \cup { Append(m, l) : m \in manifests(n - 1), l \in lines }
        RECURSIVE join(_, _, _)
        join(ls, eol, final) ==
            IF ls = <<>> THEN <<>>
            ELSE Head(ls).text \o (IF Len(ls) = 1 /\ ~final THEN <<>> ELSE eol)
                    \o join(Tail(ls), eol, final)
        layouts == { [eol |-> <<10>>, final |-> TRUE, first |-> TRUE],
                     [eol |-> <<13, 10>>, final |-> TRUE, first |-> FALSE],
                     [eol |-> <<10>>, final |-> FALSE, first |-> FALSE] }
        with(ls, layout) ==
            LET manifest == [name |-> SERVICES_MANIFEST,
                             data |-> join(ls, layout.eol, layout.final)]
            IN  EncodeBootfs(IF layout.first THEN <<manifest>> \o artifacts
                             ELSE artifacts \o <<manifest>>)
    IN  { [present |-> TRUE, lines |-> ls, extent |-> with(ls, layout)] :
            ls \in manifests(MaxLines), layout \in layouts }
        \cup { [present |-> FALSE, lines |-> <<>>, extent |-> extent] :
                 extent \in { <<>>, EncodeBootfs(artifacts), EncodeBootfs(<<>>),
                              MAGIC \o <<2, 0, 0, 0>> } }

\* bootstrap is about to call find_entry("a") on a view of an extent.
BootfsInit ==
    /\ Idle({"boot", "frames", "cpu", "lock", "sched", "chan", "route"})
    /\ \E data \in Extents :
          scenario = [name |-> "bootfs", pc |-> "entries", data |-> data,
                      target |-> <<97>>, iter |-> None, ret |-> None,
                      reads |-> {}, calls |-> 0]

\* bootstrap is about to call validate_manifest on a view of a boot
\* filesystem.
ManifestInit ==
    /\ Idle({"boot", "frames", "cpu", "lock", "sched", "chan", "route"})
    /\ \E input \in ManifestInputs :
          scenario = [name |-> "manifest", pc |-> "call",
                      present |-> input.present, lines |-> input.lines,
                      extent |-> input.extent, summary |-> None]

\* find_entry: self.entries()?
FindEntryEntries ==
    /\ scenario.name = "bootfs"
    /\ scenario.pc = "entries"
    /\ LET r == BootfsIter_new(scenario.data)
       IN  scenario' =
             IF Len(scenario.data) = 0 THEN [scenario EXCEPT !.pc = "done"]
             ELSE [scenario EXCEPT !.pc = IF r.iter = None THEN "done" ELSE "next",
                                   !.iter = r.iter,
                                   !.reads = @ \cup r.reads]
    /\ UNCHANGED <<frameVars, cpuVars, lockVars, schedVars, chanVars, routeVars,
                   bootVars>>

\* find_entry: one turn of while let Some(entry) = iter.next()
FindEntryNext ==
    /\ scenario.name = "bootfs"
    /\ scenario.pc = "next"
    /\ LET it == CHOOSE x \in scenario.iter : TRUE
           r == BootfsIter_next(scenario.data, it)
           found == \E entry \in r.item : entry.name = scenario.target
       IN  scenario' =
             [scenario EXCEPT
                !.iter = Some(r.iter),
                !.reads = @ \cup r.reads,
                !.calls = @ + 1,
                !.pc = IF r.item = None \/ found THEN "done" ELSE "next",
                !.ret = IF found
                        THEN { entry.data : entry \in r.item }
                        ELSE None]
    /\ UNCHANGED <<frameVars, cpuVars, lockVars, schedVars, chanVars, routeVars,
                   bootVars>>

\* bootfs.validate_manifest()
ValidateManifest ==
    /\ scenario.name = "manifest"
    /\ scenario.pc = "call"
    /\ scenario' = [scenario EXCEPT !.pc = "done",
                      !.summary = Some(validate_manifest(scenario.extent))]
    /\ UNCHANGED <<frameVars, cpuVars, lockVars, schedVars, chanVars, routeVars,
                   bootVars>>

BootfsNext ==
    \/ FindEntryEntries
    \/ FindEntryNext

\* The init task runs on: its calls are not preempted for ever.
SpecBootfs == BootfsInit /\ [][BootfsNext]_vars /\ WF_vars(BootfsNext)

SpecManifest == ManifestInit /\ [][ValidateManifest]_vars

\* C23: whatever the extent holds (a truncated header, a wrong magic or
\* version, an entry_count larger than the entries present, a name_len or
\* data_len overrunning the extent), iterating its entries comes to an end
\* and reads no byte outside the extent.
C23_BootfsSafety ==
    /\ [](scenario.name = "bootfs"
            => /\ \A i \in scenario.reads : i >= 0 /\ i < Len(scenario.data)
               /\ scenario.calls
                    <= u16_from_le_bytes(Index(scenario.data, 6),
                                         Index(scenario.data, 7)).lo + 1)
    /\ <>(scenario.name = "bootfs" => scenario.pc = "done")

\* C23 witness: a header announcing three entries, a first entry "b" that is
\* read and passed over, and a second whose data_len (0xFF000001) overruns
\* the extent: the search is over after two calls of next with nothing found.
C23_Witness ==
    /\ scenario.name = "bootfs"
    /\ scenario.data = MAGIC \o <<1, 0, 3, 0>> \o <<1, 0, 98, 1, 0, 0, 0, 7>>
                         \o <<1, 0, 98, 1, 0, 0, 255>>
    /\ scenario.pc = "done"
    /\ scenario.calls = 2
    /\ scenario.ret = None
    /\ scenario.iter = Some([offset |-> 23, remaining |-> 2])
    /\ scenario.reads = 0 .. 22

\* C24: a well-formed manifest with k service lines (comments and blank
\* lines between them, the capability field given or not) whose artifacts
\* are all entries of the boot filesystem validates to k services and no
\* error.
C24_WellFormedManifest ==
    (/\ scenario.name = "manifest"
     /\ scenario.pc = "done"
     /\ scenario.present
     /\ \A i \in 1 .. Len(scenario.lines) :
           scenario.lines[i].kind \in {"service", "ignored"}
     /\ \E i \in 1 .. Len(scenario.lines) : scenario.lines[i].kind = "service")
        => scenario.summary
             = Some([services |-> Cardinality({i \in 1 .. Len(scenario.lines) :
                                                 scenario.lines[i].kind = "service"}),
                     error |-> None])

\* C24 witness: three lines, a comment between two service lines of which
\* one has a capability field, validated to two services.
C24_Witness ==
    /\ scenario.name = "manifest"
    /\ scenario.pc = "done"
    /\ Len(scenario.lines) = 3
    /\ scenario.lines[1].text = SERVICE_PREFIX \o <<102, 58, 97, 58, 109>>
    /\ scenario.lines[2].text = <<35, 32, 120>>
    /\ scenario.lines[3].text # scenario.lines[1].text
    /\ scenario.lines[3].kind = "service"
    /\ scenario.summary = Some([services |-> 2, error |-> None])

\* C25: a manifest with one corrupted line validates to no service and the
\* error of that corruption (a wrong prefix, too few or too many fields, an
\* empty name, artifact or entry: InvalidFormat; an artifact that is no
\* entry: MissingArtifact; a byte that is not UTF-8: Utf8); a manifest with
\* no service line validates to Empty and a boot filesystem without a
\* manifest to MissingManifest.
C25_CorruptedManifest ==
    (scenario.name = "manifest" /\ scenario.pc = "done")
        => LET corrupted == {i \in 1 .. Len(scenario.lines) :
                                scenario.lines[i].kind \notin {"service", "ignored"}}
               services == {i \in 1 .. Len(scenario.lines) :
                               scenario.lines[i].kind = "service"}
           IN  /\ (scenario.present /\ Cardinality(corrupted) = 1)
                    => \E i \in corrupted :
                          scenario.summary
                            = Some([services |-> 0,
                                    error |-> Some(scenario.lines[i].kind)])
               /\ (scenario.present /\ corrupted = {} /\ services = {})
                    => scenario.summary
                         = Some([services |-> 0, error |-> Some("Empty")])
               /\ ~scenario.present
                    => scenario.summary
                         = Some([services |-> 0, error |-> Some("MissingManifest")])

\* C25 witness: two service lines and then "service:f:x:m", where no entry is
\* named "x": MissingArtifact and no service.
C25_Witness ==
    /\ scenario.name = "manifest"
    /\ scenario.pc = "done"
    /\ Len(scenario.lines) = 3
    /\ scenario.lines[1].kind = "service"
    /\ scenario.lines[2].kind = "service"
    /\ scenario.lines[3].kind = "MissingArtifact"
    /\ scenario.summary = Some([services |-> 0, error |-> Some("MissingArtifact")])

(***************************************************************************)
(* memory::init with a handoff record (kernel/src/memory.rs,               *)
(* apply_boot_info), on the map of TOTAL_FRAMES entries.                   *)
(***************************************************************************)
FRAME_SIZE_BYTES == 4096

\* The regions of a memory map, at most.
MaxRegions == 3

\* The allocate_frame and release_frame calls followed after an
\* initialization, at most.
MaxMemCalls == 5

\* A mutant of mark_phys_range: the frame holding the last byte is left out
\* unless the range ends on its boundary.
mark_phys_range_floor(a, base, length, state) ==
    IF length = 0 THEN a
    ELSE mark_range(a, base \div FRAME_SIZE_BYTES,
                    (base + length) \div FRAME_SIZE_BYTES, state)

\* FrameAllocator::mark_phys_range (the addresses followed are far below
\* 2^64, where base + length wraps)
mark_phys_range(a, base, length, state) ==
    IF length = 0 THEN a
    ELSE mark_range(a, base \div FRAME_SIZE_BYTES,
                    ((base + length - 1) \div FRAME_SIZE_BYTES) + 1, state)

\* FrameAllocator::apply_boot_info; info.regions is the memory at
\* info.memory_map.base
apply_boot_info(a, info) ==
    LET n == FrameCount(a.map)
        RECURSIVE mark_regions(_, _)
        mark_regions(b, regions) ==
            IF regions = <<>> THEN b
            ELSE LET region == Head(regions)
                 IN  mark_regions(mark_phys_range(b, region.base, region.length,
                                                  IF region.kind = "UsableRam"
                                                  THEN "Free" ELSE "Reserved"),
                                  Tail(regions))
        marked == mark_regions(reset_frames(n, "Reserved"), info.regions)
        without_bootfs ==
            IF info.bootfs.length # 0
            THEN mark_phys_range(marked, info.bootfs.base, info.bootfs.length,
                                 "Reserved")
            ELSE marked
        reserved == reserve_range(without_bootfs, 0, BOOT_RESERVED_FRAMES)
        free == {idx \in DOMAIN reserved.map : reserved.map[idx] = "Free"}
    IN  IF info.memory_map.base = 0 \/ info.memory_map.len = 0
        THEN reserve_range(reset_frames(n, "Free"), 0, BOOT_RESERVED_FRAMES)
        ELSE [reserved EXCEPT
                !.next_search_idx = IF free = {} THEN 0 ELSE Min(free)]

\* The handoff records followed: the map at an address, with as many
\* regions as its length tells (none included), and a null address with a
\* length all the same.  The regions a map may hold: all of the memory the
\* allocator covers, frames 4 to 7, frame 6, a page starting one byte into
\* frame 5, two bytes across the boundary of frames 7 and 8, three pages
\* from the last frame on, a page beyond the map, a region of length 0, the
\* six low frames, and frames 8 to 127.  The extents of the boot filesystem:
\* none, 100 bytes in frame 5, a page starting 100 bytes into frame 7, and
\* an address with length 0.
MemoryInfos ==
    LET region(base, length, kind) == [base |-> base, length |-> length, kind |-> kind]
        regions ==
            { region(0, 128 * 4096, "UsableRam"),
              region(4 * 4096, 4 * 4096, "UsableRam"),
              region(6 * 4096, 4096, "Reserved"),
              region(5 * 4096 + 1, 4096, "Mmio"),
              region(7 * 4096 + 4095, 2, "UsableRam"),
              region(127 * 4096, 3 * 4096, "UsableRam"),
              region(200 * 4096, 4096, "UsableRam"),
              region(2 * 4096, 0, "UsableRam"),
              region(0, 6 * 4096, "AcpiReclaimable"),
              region(8 * 4096, 120 * 4096, "AcpiNvs") }
        RECURSIVE maps(_)
        maps(n) ==
            IF n = 0 THEN {<<>>}
            ELSE maps(n - 1) \cup { Append(m, r) : m \in maps(n - 1), r \in regions }
        extents ==
            { [base |-> 0, length |-> 0], [base |-> 5 * 4096, length |-> 100],
              [base |-> 7 * 4096 + 100, length |-> 4096],
              [base |-> 9 * 4096, length |-> 0] }
        info(base, map, bootfs) ==
            [memory_map |-> [base |-> base, len |-> Len(map)], regions |-> map,
             bootfs |-> bootfs]
    IN  { info(36864, map, bootfs) : map \in maps(MaxRegions), bootfs \in extents }
            \cup { info(0, map, bootfs) : map \in maps(1), bootfs \in extents }

\* memory::init(Some(info)) is about to be called on the allocator as built.
MemInitInit ==
    /\ Idle({"boot", "cpu", "lock", "sched", "chan", "route"})
    /\ FRAME_ALLOCATOR = reset_frames(TOTAL_FRAMES, "Free")
    /\ fr_last = [op |-> "none"]
    /\ outstanding = {}
    /\ ever_allocated = {}
    /\ net_allocated = 0
    /\ \E info \in MemoryInfos :
          scenario = [name |-> "meminit", pc |-> "call", info |-> info,
                      run |-> FALSE, calls |-> 0]

\* memory::init(Some(info)) is about to be called, and calls of
\* allocate_frame and release_frame follow it.  The handoff records: no
\* memory map at all, and a map of frames 4 to 7 usable alone, after a
\* reserved frame 6, before a device page from one byte into frame 5, and
\* before a reserved frame 6 with two usable bytes across frames 7 and 8;
\* each without a boot filesystem, with one of 100 bytes in frame 5, and
\* with a page starting 100 bytes into frame 7.
MemRunInit ==
    /\ Idle({"boot", "cpu", "lock", "sched", "chan", "route"})
    /\ FRAME_ALLOCATOR = reset_frames(TOTAL_FRAMES, "Free")
    /\ fr_last = [op |-> "none"]
    /\ outstanding = {}
    /\ ever_allocated = {}
    /\ net_allocated = 0
    /\ LET region(base, length, kind) == [base |-> base, length |-> length, kind |-> kind]
           usable == region(4 * 4096, 4 * 4096, "UsableRam")
           reserved == region(6 * 4096, 4096, "Reserved")
           maps == { <<usable>>, <<reserved, usable>>,
                     <<usable, region(5 * 4096 + 1, 4096, "Mmio")>>,
                     <<usable, reserved, region(7 * 4096 + 4095, 2, "UsableRam")>> }
           extents == { [base |-> 0, length |-> 0], [base |-> 5 * 4096, length |-> 100],
                        [base |-> 7 * 4096 + 100, length |-> 4096] }
       IN  \E info \in { i \in MemoryInfos :
                            /\ i.bootfs \in extents
                            /\ \/ i.regions \in maps /\ i.memory_map.base # 0
                               \/ i.regions = <<>> /\ i.memory_map.base = 0 } :
              scenario = [name |-> "meminit", pc |-> "call", info |-> info,
                          run |-> TRUE, calls |-> 0]

\* memory::init(Some(info))
MemoryInit ==
    /\ scenario.name = "meminit"
    /\ scenario.pc = "call"
    /\ FRAME_ALLOCATOR' = apply_boot_info(FRAME_ALLOCATOR, scenario.info)
    /\ fr_last' = [op |-> "init", frame |-> None, ok |-> TRUE, again |-> FALSE]
    /\ scenario' = [scenario EXCEPT !.pc = "done"]
    /\ UNCHANGED <<outstanding, ever_allocated, net_allocated, cpuVars,
                   lockVars, schedVars, chanVars, routeVars, bootVars>>

\* memory::allocate_frame() after the initialization
MemInitAllocate ==
    /\ scenario.name = "meminit"
    /\ scenario.pc = "done"
    /\ scenario.calls < MaxMemCalls
    /\ LET r == allocate_frame(FRAME_ALLOCATOR)
       IN  /\ FRAME_ALLOCATOR' = r.alloc
           /\ fr_last' = [op |-> "allocate", frame |-> r.ret, ok |-> r.ret # None,
                           again |-> FALSE]
           /\ outstanding' = outstanding \cup r.ret
           /\ ever_allocated' = ever_allocated \cup r.ret
           /\ net_allocated' = IF r.ret # None THEN net_allocated + 1
                               ELSE net_allocated
    /\ scenario' = [scenario EXCEPT
                       !.pc = IF scenario.run THEN "done" ELSE "allocated",
                       !.calls = scenario.calls + 1]
    /\ UNCHANGED <<cpuVars, lockVars, schedVars, chanVars, routeVars, bootVars>>

\* memory::release_frame(frame) after the initialization, with a frame that
\* allocate_frame returned before (and that may have been released since)
MemInitRelease ==
    /\ scenario.name = "meminit"
    /\ scenario.pc = "done"
    /\ scenario.run
    /\ scenario.calls < MaxMemCalls
    /\ \E number \in ever_allocated :
          LET r == release_frame(FRAME_ALLOCATOR, number)
          IN  /\ FRAME_ALLOCATOR' = r.alloc
              /\ fr_last' = [op |-> "release", frame |-> Some(number), ok |-> r.ret,
                              again |-> FALSE]
              /\ outstanding' = IF r.ret THEN outstanding \ {number} ELSE outstanding
              /\ net_allocated' = IF r.ret THEN net_allocated - 1 ELSE net_allocated
    /\ scenario' = [scenario EXCEPT !.calls = scenario.calls + 1]
    /\ UNCHANGED <<ever_allocated, cpuVars, lockVars, schedVars, chanVars,
                   routeVars, bootVars>>

SpecMemInit ==
    MemInitInit /\ [][MemoryInit \/ MemInitAllocate]_vars

SpecMemRun ==
    MemRunInit /\ [][MemoryInit \/ MemInitAllocate \/ MemInitRelease]_vars

\* Whether the bytes [base, base + length) have a byte in frame idx.
Touches(base, length, idx) ==
    /\ length > 0
    /\ base < (idx + 1) * FRAME_SIZE_BYTES
    /\ base + length > idx * FRAME_SIZE_BYTES

\* C26: after init with a handoff record whose memory map is not empty, a
\* frame is Free exactly when the regions applied in map order leave it
\* Free, no byte of the boot filesystem extent lies in it and it is not one
\* of the 4 low frames; next_search is the first Free index, or 0 when no
\* frame is Free.
C26_InitFromMemoryMap ==
    (/\ scenario.name = "meminit"
     /\ scenario.pc = "done"
     /\ scenario.info.memory_map.base # 0
     /\ scenario.info.memory_map.len # 0)
        => LET info == scenario.info
               \* the regions with a byte in frame idx
               touching(idx) ==
                   {k \in 1 .. Len(info.regions) :
                       Touches(info.regions[k].base, info.regions[k].length, idx)}
               \* the last of them is UsableRam
               LeftFree(idx) ==
                   /\ touching(idx) # {}
                   /\ info.regions[CHOOSE k \in touching(idx) :
                                      \A j \in touching(idx) : j <= k].kind
                        = "UsableRam"
               free == {idx \in 0 .. TOTAL_FRAMES - 1 :
                           /\ LeftFree(idx)
                           /\ ~Touches(info.bootfs.base, info.bootfs.length, idx)
                           /\ idx >= BOOT_RESERVED_FRAMES}
           IN  /\ DOMAIN FRAME_ALLOCATOR.map = 0 .. TOTAL_FRAMES - 1
               /\ \A idx \in 0 .. TOTAL_FRAMES - 1 :
                     FRAME_ALLOCATOR.map[idx] = "Free" <=> idx \in free
               /\ FRAME_ALLOCATOR.next_search_idx
                    = IF free = {} THEN 0 ELSE Min(free)

\* C26 witness: frames 4 to 7 usable, then a device page from one byte into
\* frame 5 (frames 5 and 6), then two usable bytes across frames 7 and 8,
\* with the boot filesystem in frames 7 and 8: frame 4 alone is Free.
C26_Witness ==
    /\ scenario.name = "meminit"
    /\ scenario.pc = "done"
    /\ scenario.info.memory_map.base # 0
    /\ scenario.info.regions
         = << [base |-> 4 * 4096, length |-> 4 * 4096, kind |-> "UsableRam"],
              [base |-> 5 * 4096 + 1, length |-> 4096, kind |-> "Mmio"],
              [base |-> 7 * 4096 + 4095, length |-> 2, kind |-> "UsableRam"] >>
    /\ scenario.info.bootfs = [base |-> 7 * 4096 + 100, length |-> 4096]
    /\ {idx \in DOMAIN FRAME_ALLOCATOR.map : FRAME_ALLOCATOR.map[idx] = "Free"} = {4}
    /\ FRAME_ALLOCATOR.next_search_idx = 4

(***************************************************************************)
(* The scan of allocate_frame, on the short map of SpecFrames.             *)
(***************************************************************************)
\* C28: allocate_frame returns the first Free index met when scanning from
\* next_search upwards modulo the size of the map (which need not be the
\* lowest Free index), flips it to Reserved and sets next_search to one past
\* it modulo the size; it returns nothing, and changes nothing, exactly when
\* every slot is Reserved; next_search is always an index of the map.
C28_AllocateScan ==
    /\ [](FRAME_ALLOCATOR.map # <<>>
            => FRAME_ALLOCATOR.next_search_idx \in DOMAIN FRAME_ALLOCATOR.map)
    /\ [][fr_last'.op = "allocate"
            => LET a == FRAME_ALLOCATOR
                   n == FrameCount(a.map)
                   free == {idx \in DOMAIN a.map : a.map[idx] = "Free"}
                   ahead(idx) == (idx + n - a.next_search_idx) % n
               IN  IF free = {}
                   THEN fr_last'.frame = None /\ FRAME_ALLOCATOR' = a
                   ELSE \E idx \in free :
                          /\ \A other \in free : ahead(idx) <= ahead(other)
                          /\ fr_last'.frame = Some(idx)
                          /\ FRAME_ALLOCATOR'
                               = [map |-> [a.map EXCEPT ![idx] = "Reserved"],
                                  next_search_idx |-> (idx + 1) % n]]_vars

\* C28 witness: the last frame of the map has just been allocated, the
\* cursor has wrapped to 0, and a lower frame, released before, is Free.
C28_Witness ==
    /\ scenario.name = "none"
    /\ fr_last.op = "allocate"
    /\ fr_last.frame = Some(FrameCount(FRAME_ALLOCATOR.map) - 1)
    /\ FRAME_ALLOCATOR.next_search_idx = 0
    /\ FRAME_ALLOCATOR.map[FrameCount(FRAME_ALLOCATOR.map) - 2] = "Free"

(***************************************************************************)
(* The ring of the channel and the copy made by receive, on the calls of   *)
(* SpecCalls.                                                              *)
(***************************************************************************)
\* C29: in every state of a channel len is at most the number of slots, head
\* and tail are indices of the ring and tail = (head + len) modulo the number
\* of slots; the occupancy flag is set on the len slots from head on and on
\* no other; a successful send advances tail and len and leaves head and the
\* other slots alone, a successful receive advances head and decrements len
\* and leaves tail and every message alone.
C29_RingInvariants ==
    /\ [](scenario.name = "calls"
            => LET q == KERNEL_CHANNEL.queue
                   n == MessageSlots(q)
                   Occupied == {(q.head + k) % n : k \in 0 .. q.len - 1}
               IN  /\ q.len <= n
                   /\ q.head \in 0 .. n - 1
                   /\ q.tail \in 0 .. n - 1
                   /\ q.tail = (q.head + q.len) % n
                   /\ \A i \in DOMAIN q.slots : q.slots[i].used <=> i \in Occupied)
    /\ [][(scenario'.op = "send" /\ scenario'.ret.ok)
            => LET q == KERNEL_CHANNEL.queue
                   after == KERNEL_CHANNEL'.queue
               IN  /\ after.head = q.head
                   /\ after.tail = (q.tail + 1) % MessageSlots(q)
                   /\ after.len = q.len + 1
                   /\ \A i \in DOMAIN q.slots :
                         i # q.tail => after.slots[i] = q.slots[i]]_vars
    /\ [][(scenario'.op = "receive" /\ scenario'.ret.ok)
            => LET q == KERNEL_CHANNEL.queue
                   after == KERNEL_CHANNEL'.queue
               IN  /\ after.tail = q.tail
                   /\ after.head = (q.head + 1) % MessageSlots(q)
                   /\ after.len = q.len - 1
                   /\ \A i \in DOMAIN q.slots :
                         after.slots[i].message = q.slots[i].message]_vars

\* C29 witness: a send has filled the ring after it has wrapped: head and
\* tail meet at the last slot and every slot is occupied.
C29_Witness ==
    /\ scenario.name = "calls"
    /\ scenario.op = "send"
    /\ scenario.ret.ok
    /\ KERNEL_CHANNEL.queue.head = MessageSlots(KERNEL_CHANNEL.queue) - 1
    /\ KERNEL_CHANNEL.queue.tail = KERNEL_CHANNEL.queue.head
    /\ KERNEL_CHANNEL.queue.len = MessageSlots(KERNEL_CHANNEL.queue)
    /\ \A i \in DOMAIN KERNEL_CHANNEL.queue.slots : KERNEL_CHANNEL.queue.slots[i].used

\* C30: a successful receive copies the first min(payload length, buffer
\* length) bytes of the head message, returns that count and removes the
\* whole message, the bytes that did not fit included: what is at the head
\* afterwards is the next message, which the next receive returns from its
\* first byte.
C30_ReceiveTruncates ==
    [][(scenario'.op = "receive" /\ scenario'.ret.ok)
        => LET q == KERNEL_CHANNEL.queue
               after == KERNEL_CHANNEL'.queue
               payload == scenario.latest[q.head]
               buffer == scenario'.bytes
               count == Min({Len(payload), Len(buffer)})
           IN  /\ q.slots[q.head].message.len = Len(payload)
               /\ scenario'.ret.count = count
               /\ Len(scenario'.ret.buffer) = Len(buffer)
               /\ \A i \in 1 .. Len(buffer) :
                     scenario'.ret.buffer[i]
                       = IF i <= count THEN payload[i] ELSE buffer[i]
               /\ after.len = q.len - 1
               /\ after.head = (q.head + 1) % MessageSlots(q)
               /\ ~after.slots[q.head].used
               /\ after.len > 0
                    => /\ after.slots[after.head].message.len
                            = Len(scenario.latest[after.head])
                       /\ \A i \in 1 .. Len(scenario.latest[after.head]) :
                             after.slots[after.head].message.payload[i - 1]
                               = scenario.latest[after.head][i]]_vars

\* C30 witness: a receive into a buffer of one byte has returned the first of
\* the two bytes of <<2, 3>>; the message now at the head is <<1>>, sent
\* after it.
C30_Witness ==
    /\ scenario.name = "calls"
    /\ scenario.op = "receive"
    /\ scenario.ret.ok
    /\ scenario.ret.count = 1
    /\ scenario.ret.buffer = <<2>>
    /\ KERNEL_CHANNEL.queue.len = 1
    /\ KERNEL_CHANNEL.queue.slots[KERNEL_CHANNEL.queue.head].message.len = 1
    /\ KERNEL_CHANNEL.queue.slots[KERNEL_CHANNEL.queue.head].message.payload[0] = 1

(***************************************************************************)
(* receive_bootstrap_message with a buffer that holds no byte, on the      *)
(* calls of SpecRoute.                                                     *)
(***************************************************************************)
\* C31: receive_bootstrap_message called with a zero-length buffer returns
\* an error, whatever the kernel channel holds.
C31_ZeroBufferReceive ==
    (ch_last.op = "receive_bootstrap_message" /\ Len(ch_last.ret.buffer) = 0)
        => ~ch_last.ret.ok

(***************************************************************************)
(* kernel/src/scheduler.rs step by step: every call of register, of the    *)
(* pop of run() and of init takes the guard of READY_QUEUE, reads the      *)
(* queue, writes it and drops the guard, and an interrupt whose handler    *)
(* calls register is taken wherever the interrupt flag allows it.          *)
(***************************************************************************)
\* The calls of register, by the task and by handlers, in one behaviour.
MaxPreemptCalls == 3

\* One step of the call c of a context, with the queue and the flag as they
\* are: READY_QUEUE.lock(), the read of the queue through the guard, the
\* write of what push, pop or reset make of it, and the drop of the guard at
\* the end of the statement, after which the call is done.
sched_step(c, q, flag) ==
    CASE c.pc = "lock" ->
           LET r == SpinLock_lock("READY_QUEUE", flag)
           IN  [call |-> [c EXCEPT !.pc = "read", !.guard = Some(r.guard)],
                queue |-> q, flag |-> r.flag]
      [] c.pc = "read" ->
           [call |-> [c EXCEPT !.pc = "write", !.seen = Some(q)],
            queue |-> q, flag |-> flag]
      [] c.pc = "write" ->
           LET s == CHOOSE x \in c.seen : TRUE
               r == CASE c.op = "register" -> ReadyQueue_push(s, c.entry)
                      [] c.op = "pop" -> ReadyQueue_pop(s)
                      [] c.op = "init" ->
                           [queue |-> ready_queue_reset(TaskSlots(s), s.next_id),
                            ret |-> None]
           IN  [call |-> [c EXCEPT !.pc = "drop", !.seen = None, !.ret = r.ret],
                queue |-> r.queue, flag |-> flag]
      [] c.pc = "drop" ->
           [call |-> [c EXCEPT !.pc = "done", !.guard = None],
            queue |-> q,
            flag |-> SpinLockGuard_drop(CHOOSE g \in c.guard : TRUE, flag)]

\* The scheduler as ReadyQueue::new leaves it, on the short ring, or, on the
\* ring of MAX_TASKS slots, as MAX_TASKS - 2 calls of register have left
\* it; no call is in progress.  scenario.call is the call the task is in,
\* scenario.calls the calls of register begun, scenario.tickets the calls
\* that have taken the guard; a registration records the ticket of its call.
PreemptInit ==
    /\ Idle({"boot", "frames", "lock", "chan", "route"})
    /\ interrupts \in BOOLEAN
    /\ isr = [pc |-> "idle"]
    /\ \/ /\ READY_QUEUE = ready_queue_reset(SmallTasks, 0)
          /\ registered = <<>>
       \/ /\ READY_QUEUE =
               [slots |-> [i \in 0 .. MAX_TASKS - 1 |->
                             IF i < MAX_TASKS - 2
                             THEN Some(TaskControlBlock(i, "worker", "Ready"))
                             ELSE None],
                head |-> 0, tail |-> MAX_TASKS - 2, next_id |-> MAX_TASKS - 2]
          /\ registered = [i \in 1 .. MAX_TASKS - 2 |->
                             [id |-> i - 1, entry |-> "worker", by |-> "outside",
                              ticket |-> i]]
    /\ run_pc = "outside"
    /\ current = None
    /\ sched_last = None
    /\ ran = <<>>
    /\ finished = {}
    /\ scenario = [name |-> "preempt", call |-> [op |-> "none"],
                   calls |-> 0, tickets |-> Len(registered)]

\* The task calls scheduler::register(entry), outside run() or from the
\* entry that runs, or scheduler::init(), outside run().
PreemptCall ==
    /\ isr.pc = "idle"
    /\ scenario.call.op = "none"
    /\ run_pc \in {"outside", "task"}
    /\ \/ /\ scenario.calls < MaxPreemptCalls
          /\ \E entry \in {"init_task", "worker"} :
                scenario' = [scenario EXCEPT
                               !.calls = @ + 1,
                               !.call = [op |-> "register", pc |-> "lock",
                                         entry |-> entry, by |-> run_pc,
                                         guard |-> None, seen |-> None,
                                         ret |-> None, ticket |-> 0]]
       \/ /\ run_pc = "outside"
          /\ scenario' = [scenario EXCEPT
                            !.call = [op |-> "init", pc |-> "lock",
                                      entry |-> "none", by |-> run_pc,
                                      guard |-> None, seen |-> None,
                                      ret |-> None, ticket |-> 0]]
    /\ UNCHANGED <<READY_QUEUE, run_pc, current, sched_last, registered, ran,
                   finished, frameVars, cpuVars, lockVars, chanVars, routeVars,
                   bootVars>>

\* scheduler::run() is called, or the entry of the running task returns to
\* it: the loop is at its pop.
PreemptRun ==
    /\ isr.pc = "idle"
    /\ scenario.call.op = "none"
    /\ run_pc \in {"outside", "task"}
    /\ run_pc' = "loop"
    /\ current' = None
    /\ finished' = finished \cup current
    /\ scenario' = [scenario EXCEPT
                      !.call = [op |-> "pop", pc |-> "lock", entry |-> "none",
                                by |-> "run", guard |-> None, seen |-> None,
                                ret |-> None, ticket |-> 0]]
    /\ UNCHANGED <<READY_QUEUE, sched_last, registered, ran, frameVars,
                   cpuVars, lockVars, chanVars, routeVars, bootVars>>

\* What a step of the call c of a context, which makes after of it, adds to
\* the record of the registrations and of the tasks handed out.
PreemptRecord(c, after) ==
    /\ registered' =
         IF c.pc = "write" /\ c.op = "init" THEN <<>>
         ELSE IF c.pc = "write" /\ c.op = "register" /\ after.ret # None
         THEN Append(registered, [id |-> CHOOSE id \in after.ret : TRUE,
                                  entry |-> c.entry, by |-> c.by,
                                  ticket |-> c.ticket])
         ELSE registered
    /\ ran' =
         IF c.pc = "write" /\ c.op = "init" THEN <<>>
         ELSE IF c.pc = "write" /\ c.op = "pop" /\ after.ret # None
         THEN Append(ran, LET tcb == CHOOSE task \in after.ret : TRUE
                          IN  [id |-> tcb.id, entry |-> tcb.entry])
         ELSE ran

\* The task takes one step of the call it is in; when the call is done,
\* register and init return to their caller and run() invokes the entry of
\* the task popped, or breaks and returns.
PreemptTaskStep ==
    /\ isr.pc = "idle"
    /\ scenario.call.op # "none"
    /\ LET c == scenario.call
           r == sched_step(c, READY_QUEUE, interrupts)
           done == r.call.pc = "done"
           taken == c.pc = "lock"
       IN  /\ READY_QUEUE' = r.queue
           /\ interrupts' = r.flag
           /\ PreemptRecord(c, r.call)
           /\ scenario' =
                [scenario EXCEPT
                   !.tickets = IF taken /\ c.op = "register" THEN @ + 1 ELSE @,
                   !.call = IF done THEN [op |-> "none"]
                            ELSE IF taken /\ c.op = "register"
                            THEN [r.call EXCEPT !.ticket = scenario.tickets + 1]
                            ELSE r.call]
           /\ sched_last' = IF done /\ c.op = "register" THEN c.ret ELSE sched_last
           /\ run_pc' = IF done /\ c.op = "pop"
                        THEN IF c.ret # None THEN "task" ELSE "outside"
                        ELSE run_pc
           /\ current' = IF done /\ c.op = "pop" THEN c.ret ELSE current
    /\ UNCHANGED <<isr, finished, frameVars, lockVars, chanVars, routeVars,
                   bootVars>>

\* An interrupt is taken, wherever the task stands, and its handler calls
\* scheduler::register(entry).
PreemptInterrupt ==
    /\ isr.pc = "idle"
    /\ interrupts
    /\ scenario.calls < MaxPreemptCalls
    /\ interrupts' = gate_entry(interrupts)
    /\ isr' = [pc |-> "handler",
               call |-> [op |-> "register", pc |-> "lock", entry |-> "worker",
                         by |-> "isr", guard |-> None, seen |-> None,
                         ret |-> None, ticket |-> 0]]
    /\ scenario' = [scenario EXCEPT !.calls = @ + 1]
    /\ UNCHANGED <<READY_QUEUE, run_pc, current, sched_last, registered, ran,
                   finished, frameVars, lockVars, chanVars, routeVars, bootVars>>

\* The handler takes one step of its call of register.
PreemptIsrStep ==
    /\ isr.pc = "handler"
    /\ isr.call.pc # "done"
    /\ LET c == isr.call
           r == sched_step(c, READY_QUEUE, interrupts)
       IN  /\ READY_QUEUE' = r.queue
           /\ interrupts' = r.flag
           /\ PreemptRecord(c, r.call)
           /\ isr' = [isr EXCEPT
                        !.call = IF c.pc = "lock"
                                 THEN [r.call EXCEPT !.ticket = scenario.tickets + 1]
                                 ELSE r.call]
           /\ scenario' = [scenario EXCEPT
                             !.tickets = IF c.pc = "lock" THEN @ + 1 ELSE @]
    /\ UNCHANGED <<run_pc, current, sched_last, finished, frameVars, lockVars,
                   chanVars, routeVars, bootVars>>

\* The handler returns.
PreemptIsrReturn ==
    /\ isr.pc = "handler"
    /\ isr.call.pc = "done"
    /\ interrupts' = iret(interrupts)
    /\ isr' = [pc |-> "idle"]
    /\ UNCHANGED <<schedVars, frameVars, lockVars, chanVars, routeVars,
                   bootVars, scenario>>

PreemptNext ==
    \/ PreemptCall
    \/ PreemptRun
    \/ PreemptTaskStep
    \/ PreemptInterrupt
    \/ PreemptIsrStep
    \/ PreemptIsrReturn

\* The processor runs on: the context that can take a step takes one.
SpecPreempt == PreemptInit /\ [][PreemptNext]_vars /\ WF_vars(PreemptNext)

\* C32: run() pops one task at a time under the scheduler lock and calls
\* its entry with the lock released, and returns exactly when a pop finds
\* the queue empty: with finitely many registrations run() terminates with
\* head = tail, and a register called from inside an entry returns.
C32_RunTerminates ==
    /\ [](scenario.name = "preempt"
            => /\ (scenario.call.op # "none"
                     /\ scenario.call.pc \in {"read", "write", "drop"})
                    => /\ ~interrupts
                       /\ isr.pc = "idle"
                       /\ scenario.call.guard # None
               /\ (run_pc = "task" /\ scenario.call.op = "none")
                    => Cardinality(current) = 1)
    /\ [][(scenario.call.op = "pop" /\ scenario.call.pc = "write")
            => (scenario'.call.ret = None
                  <=> READY_QUEUE.head = READY_QUEUE.tail)]_vars
    /\ [][(run_pc = "loop" /\ run_pc' # "loop")
            => /\ scenario.call.pc = "drop"
               /\ scenario'.call.op = "none"
               /\ run_pc' = "outside" <=> scenario.call.ret = None
               /\ run_pc' = "task" <=> current' # None
               /\ run_pc' = "outside" => READY_QUEUE'.head = READY_QUEUE'.tail]_vars
    /\ (run_pc = "loop")
          ~> (run_pc = "outside" /\ READY_QUEUE.head = READY_QUEUE.tail)
    /\ (run_pc = "task" /\ scenario.call.op = "register")
          ~> (run_pc = "task" /\ scenario.call.op = "none")

\* C32 witness: run() has returned with the ring empty after it has run a
\* task that registered another, which it has run as well.
C32_Witness ==
    /\ scenario.name = "preempt"
    /\ run_pc = "outside"
    /\ scenario.call.op = "none"
    /\ READY_QUEUE.head = READY_QUEUE.tail
    /\ Len(ran) = Len(registered)
    /\ \E i \in 1 .. Len(registered) : registered[i].by = "task"

\* C33: when interrupt handlers call register at any step of a register of
\* the task or of run(), the updates of the ready queue do not interleave:
\* the tasks registered and not yet popped are in the ring once each, from
\* head to tail in the order in which their calls took the lock, and no
\* other slot is occupied.
C33_RegistersDoNotInterleave ==
    scenario.name = "preempt"
        => LET q == READY_QUEUE
               n == TaskSlots(q)
               queued == (q.tail + n - q.head) % n
           IN  /\ Len(ran) <= Len(registered)
               /\ queued = Len(registered) - Len(ran)
               /\ \A k \in 1 .. queued :
                     q.slots[(q.head + k - 1) % n]
                       = Some(TaskControlBlock(registered[Len(ran) + k].id,
                                               registered[Len(ran) + k].entry,
                                               "Ready"))
               /\ \A i \in DOMAIN q.slots :
                     (i + n - q.head) % n >= queued => q.slots[i] = None
               /\ \A i, j \in 1 .. Len(registered) :
                     i < j => registered[i].ticket < registered[j].ticket
               /\ \A i \in 1 .. Len(ran) : ran[i] = Task(registered[i])

\* C33 witness: the register of a handler has returned an id while the task
\* stands in a register of its own, of which it has not yet taken the lock,
\* after an earlier register of the task.
C33_Witness ==
    /\ scenario.name = "preempt"
    /\ isr.pc = "handler"
    /\ isr.call.pc = "done"
    /\ isr.call.ret # None
    /\ scenario.call.op = "register"
    /\ scenario.call.pc = "lock"
    /\ Len(registered) >= 2
    /\ registered[Len(registered)].by = "isr"
    /\ registered[Len(registered) - 1].by # "isr"

\* C34: in every state the occupied slots of the ready queue are the ring
\* interval from head up to but excluding tail, each holding one Ready TCB,
\* so that a pop with head # tail yields a task; at most one less than the
\* number of slots (MAX_TASKS - 1) tasks are queued, and scheduler init
\* empties the queue.
C34_ReadyRing ==
    /\ [](scenario.name = "preempt"
            => LET q == READY_QUEUE
                   n == TaskSlots(q)
                   queued == (q.tail + n - q.head) % n
               IN  /\ q.head \in 0 .. n - 1
                   /\ q.tail \in 0 .. n - 1
                   /\ queued <= n - 1
                   /\ n = MAX_TASKS => queued <= MAX_TASKS - 1
                   /\ \A i \in DOMAIN q.slots :
                         IF (i + n - q.head) % n < queued
                         THEN /\ Cardinality(q.slots[i]) = 1
                              /\ \A tcb \in q.slots[i] : tcb.state = "Ready"
                         ELSE q.slots[i] = None)
    /\ [][(scenario.call.op = "pop" /\ scenario.call.pc = "write"
             /\ READY_QUEUE.head # READY_QUEUE.tail)
            => /\ Cardinality(scenario'.call.ret) = 1
               /\ \A tcb \in scenario'.call.ret :
                     [tcb EXCEPT !.state = "Ready"]
                       \in READY_QUEUE.slots[READY_QUEUE.head]]_vars
    /\ [][(scenario.call.op = "init" /\ scenario.call.pc = "write")
            => /\ READY_QUEUE'.head = READY_QUEUE'.tail
               /\ \A i \in DOMAIN READY_QUEUE'.slots :
                     READY_QUEUE'.slots[i] = None]_vars

\* C34 witness: the ring of MAX_TASKS slots holds MAX_TASKS - 1 tasks, and
\* the register called then has returned no id.
C34_Witness ==
    /\ scenario.name = "preempt"
    /\ TaskSlots(READY_QUEUE) = MAX_TASKS
    /\ (READY_QUEUE.tail + MAX_TASKS - READY_QUEUE.head) % MAX_TASKS = MAX_TASKS - 1
    /\ scenario.call.op = "register"
    /\ scenario.call.pc = "drop"
    /\ scenario.call.ret = None

(***************************************************************************)
(* The frames reserved by memory::init, under the calls that follow it.    *)
(***************************************************************************)

\* C35: while release_frame is called only with frames that allocate_frame
\* returned before, a frame Reserved right after init (the 4 low frames, a
\* frame of a firmware-reserved region, a frame of the boot filesystem
\* extent) stays Reserved and is never returned by allocate_frame, and the
\* Reserved slots are exactly those initial reservations and the frames
\* handed out and not yet released.
C35_InitialReservationsKept ==
    LET after == apply_boot_info(reset_frames(TOTAL_FRAMES, "Free"), scenario.info)
        initial == {idx \in DOMAIN after.map : after.map[idx] = "Reserved"}
    IN  (scenario.name = "meminit" /\ scenario.pc # "call")
            => /\ initial \cap outstanding = {}
               /\ {idx \in DOMAIN FRAME_ALLOCATOR.map :
                      FRAME_ALLOCATOR.map[idx] = "Reserved"}
                    = initial \cup outstanding
               /\ fr_last.op = "allocate" => fr_last.frame \cap initial = {}
               /\ ever_allocated \cap initial = {}

\* C35 witness: frames 4 to 7 usable, then a device page in frames 5 and 6,
\* and the boot filesystem in frame 5; frames 4 and 7 were handed out,
\* frame 4 was released, and the next allocate_frame wrapped past the low
\* frames to frame 4 again.
C35_Witness ==
    /\ scenario.name = "meminit"
    /\ scenario.calls = 4
    /\ scenario.info.memory_map.base # 0
    /\ Len(scenario.info.regions) = 2
    /\ scenario.info.regions[2].kind = "Mmio"
    /\ scenario.info.bootfs = [base |-> 5 * 4096, length |-> 100]
    /\ fr_last = [op |-> "allocate", frame |-> Some(4), ok |-> TRUE, again |-> FALSE]
    /\ outstanding = {4, 7}
    /\ FRAME_ALLOCATOR.map[5] = "Reserved"
    /\ FRAME_ALLOCATOR.map[6] = "Reserved"

\* C36: after init with a handoff record whose boot filesystem extent is not
\* empty, every frame with a byte of the extent is Reserved and is never
\* returned by allocate_frame, with and without a memory map.
C36_BootfsReserved ==
    (/\ scenario.name = "meminit"
     /\ scenario.pc # "call"
     /\ scenario.info.bootfs.length # 0)
        => \A idx \in DOMAIN FRAME_ALLOCATOR.map :
              Touches(scenario.info.bootfs.base, scenario.info.bootfs.length, idx)
                  => /\ FRAME_ALLOCATOR.map[idx] = "Reserved"
                     /\ idx \notin ever_allocated

\* C37: right after init with a handoff record that has a memory map, no
\* frame with a byte of a region of a kind other than UsableRam is Free,
\* whatever the order of the regions and whatever UsableRam regions cover
\* the frame as well.
C37_NonUsableNeverFree ==
    (/\ scenario.name = "meminit"
     /\ scenario.pc = "done"
     /\ scenario.calls = 0
     /\ scenario.info.memory_map.base # 0
     /\ scenario.info.memory_map.len # 0)
        => \A idx \in DOMAIN FRAME_ALLOCATOR.map :
              \A k \in 1 .. Len(scenario.info.regions) :
                 LET region == scenario.info.regions[k]
                 IN  (/\ region.kind # "UsableRam"
                      /\ Touches(region.base, region.length, idx))
                         => FRAME_ALLOCATOR.map[idx] # "Free"

(***************************************************************************)
(* FrameAllocator::mark_phys_range on 64-bit operands.  A u64 is kept as   *)
(* the record [hi, lo, off] of the value (hi * 2^26 + lo) * 4096 + off,    *)
(* with hi, lo < 2^26 and off < 4096: hi and lo are the frame number, off  *)
(* the offset in the frame.                                                *)
(***************************************************************************)

\* FrameAllocator::mark_phys_range with u64 arithmetic.  base + length - 1
\* is computed as written: with overflow checks the addition panics when
\* the sum does not fit, without them it wraps.  usize is u64 on the
\* kernel's target.  The frame numbers handed to mark_range, which clamps
\* them to the map, are handed over as n + 1 where they are larger.
mark_phys_range_u64(a, base, length, state, overflow_checks) ==
    LET n == FrameCount(a.map)
        limb == 67108864
        sum_off == base.off + length.off
        sum_lo == base.lo + length.lo + (sum_off \div FRAME_SIZE_BYTES)
        sum_hi == base.hi + length.hi + (sum_lo \div limb)
        sum == [hi |-> sum_hi % limb, lo |-> sum_lo % limb,
                off |-> sum_off % FRAME_SIZE_BYTES]
        \* sum - 1; the sum is 0 only after a wrap, and the difference
        \* wraps again
        last == [off |-> IF sum.off = 0 THEN FRAME_SIZE_BYTES - 1 ELSE sum.off - 1,
                 lo |-> IF sum.off # 0 THEN sum.lo
                        ELSE IF sum.lo = 0 THEN limb - 1 ELSE sum.lo - 1,
                 hi |-> IF sum.off # 0 \/ sum.lo # 0 THEN sum.hi
                        ELSE IF sum.hi = 0 THEN limb - 1 ELSE sum.hi - 1]
        \* (x as usize) / FRAME_SIZE_BYTES
        frame(x) == IF x.hi > 0 \/ x.lo > n THEN n + 1 ELSE x.lo
    IN  IF length = [hi |-> 0, lo |-> 0, off |-> 0]
        THEN [alloc |-> a, panicked |-> FALSE]
        ELSE IF overflow_checks /\ sum_hi >= limb
        THEN [alloc |-> a, panicked |-> TRUE]
        ELSE [alloc |-> mark_range(a, frame(base), frame(last) + 1, state),
              panicked |-> FALSE]

\* mark_phys_range is about to be called on a map that holds the other
\* state everywhere.  The bases: 0, one byte into frame 5, the last byte of
\* the last frame, the first byte above the map, 2^32, 2^38, 2^64 - 4096
\* and 2^64 - 1.  The lengths: 0, 1, 2, a page, a page and a byte, three
\* pages, 2^63, 2^64 - 5 * 4096 and 2^64 - 1.
MarkRangeInit ==
    /\ Idle({"boot", "cpu", "lock", "sched", "chan", "route"})
    /\ fr_last = [op |-> "none"]
    /\ outstanding = {}
    /\ ever_allocated = {}
    /\ net_allocated = 0
    /\ LET top == 67108863
           u64(hi, lo, off) == [hi |-> hi, lo |-> lo, off |-> off]
           bases == { u64(0, 0, 0), u64(0, 5, 1), u64(0, TOTAL_FRAMES - 1, 4095),
                      u64(0, TOTAL_FRAMES, 0), u64(0, 1048576, 0), u64(1, 0, 0),
                      u64(top, top, 0), u64(top, top, 4095) }
           lengths == { u64(0, 0, 0), u64(0, 0, 1), u64(0, 0, 2), u64(0, 1, 0),
                        u64(0, 1, 1), u64(0, 3, 0), u64(33554432, 0, 0),
                        u64(top, top - 4, 0), u64(top, top, 4095) }
       IN  \E base \in bases, length \in lengths, state \in {"Free", "Reserved"} :
              /\ FRAME_ALLOCATOR
                   = reset_frames(TOTAL_FRAMES,
                                  IF state = "Free" THEN "Reserved" ELSE "Free")
              /\ scenario = [name |-> "markrange", pc |-> "call", base |-> base,
                             length |-> length, state |-> state]

\* mark_phys_range(base, length, state), in a build with and in a build
\* without overflow checks
MarkPhysRange ==
    /\ scenario.name = "markrange"
    /\ scenario.pc = "call"
    /\ \E overflow_checks \in BOOLEAN :
          LET r == mark_phys_range_u64(FRAME_ALLOCATOR, scenario.base,
                                       scenario.length, scenario.state,
                                       overflow_checks)
          IN  /\ FRAME_ALLOCATOR' = r.alloc
              /\ fr_last' = [op |-> "mark_phys_range", frame |-> None,
                              ok |-> ~r.panicked, again |-> FALSE]
              /\ scenario' = [scenario EXCEPT
                                 !.pc = IF r.panicked THEN "panic" ELSE "done"]
    /\ UNCHANGED <<outstanding, ever_allocated, net_allocated, cpuVars,
                   lockVars, schedVars, chanVars, routeVars, bootVars>>

SpecMarkRange == MarkRangeInit /\ [][MarkPhysRange]_vars

\* C38: for every 64-bit base and every length > 0, mark_phys_range returns
\* with exactly the frames of the map that have a byte of
\* [base, base + length) set to the state and every other frame as it was,
\* also when base + length - 1 does not fit in 64 bits.  Frame idx has a
\* byte of the range when base < (idx + 1) * 4096 and
\* base + length > idx * 4096.
C38_MarkPhysRangeExact ==
    (/\ scenario.name = "markrange"
     /\ scenario.pc # "call"
     /\ scenario.length # [hi |-> 0, lo |-> 0, off |-> 0])
        => LET base == scenario.base
               length == scenario.length
               intersects(idx) ==
                   /\ base.hi = 0
                   /\ base.lo <= idx
                   /\ \/ base.hi + length.hi > 0
                      \/ base.lo + length.lo > idx
                      \/ base.lo + length.lo = idx /\ base.off + length.off > 0
           IN  /\ scenario.pc = "done"
               /\ DOMAIN FRAME_ALLOCATOR.map = 0 .. TOTAL_FRAMES - 1
               /\ \A idx \in 0 .. TOTAL_FRAMES - 1 :
                     FRAME_ALLOCATOR.map[idx] = scenario.state <=> intersects(idx)

(***************************************************************************)
(* init_task on a channel that holds any messages (kernel/src/bin/         *)
(* kernel.rs, services/init/src/lib.rs).                                   *)
(***************************************************************************)

\* The messages the channel holds when scheduler::run is entered, at most.
MaxQueued == 2

\* scheduler::run is about to pop the init task.  The channel holds up to
\* MaxQueued messages: "BOOT", an empty one, or 17 bytes, one more than
\* the buffer of bootstrap.  boot::boot_info() is None or a handoff record
\* with any manifest.  boot.sent keeps what was sent.
InitTaskInit ==
    /\ Idle({"lock", "scenario"})
    /\ isr = [pc |-> "idle"]
    /\ interrupts \in BOOLEAN
    /\ fr_last = [op |-> "none"]
    /\ outstanding = {}
    /\ ever_allocated = {}
    /\ net_allocated = 0
    /\ READY_QUEUE = ReadyQueue_push(ready_queue_reset(MAX_TASKS, 0), "init_task").queue
    /\ run_pc = "loop"
    /\ current = None
    /\ sched_last = None
    /\ registered = <<>>
    /\ ran = <<>>
    /\ finished = {}
    /\ call = NoCall
    /\ ch_last = [op |-> "none"]
    /\ pending = <<>>
    /\ ROUTING_TABLE = RoutingTable_mark_init_registered(RoutingTable_new)
    /\ IPC_INTERRUPT_PENDING = FALSE
    /\ init_requested = TRUE
    /\ LET payloads == {BOOT_PAYLOAD, <<>>, [i \in 1 .. BOOT_BUFFER_LEN + 1 |-> 7]}
           RECURSIVE queues(_)
           queues(n) ==
               IF n = 0 THEN {<<>>}
               ELSE queues(n - 1)
                        \cup { Append(q, m) : q \in queues(n - 1), m \in payloads }
           RECURSIVE filled(_, _)
           filled(c, sent) ==
               IF sent = <<>> THEN c
               ELSE filled(Channel_send(c, Head(sent)).chan, Tail(sent))
       IN  \E info \in BootInfos, sent \in queues(MaxQueued) :
              /\ FRAME_ALLOCATOR = apply_boot_info_empty(TOTAL_FRAMES, info)
              /\ KERNEL_CHANNEL = filled(Channel_new(MAX_MESSAGES), sent)
              /\ BOOT_INFO \in {None, Some(info)}
              /\ boot = [pc |-> "running", info |-> info, send_ret |-> None,
                         outcome |-> None, reply_ret |-> None, final |-> None,
                         exit |-> None, initialized |-> InitSubsystems,
                         ticks |-> 0, sent |-> sent]

SpecInitTask ==
    InitTaskInit
        /\ [][BootRunPop \/ InitTaskBootstrap \/ InitTaskReply \/ BootFinalReceive]_vars

\* C39: bootstrap takes exactly one datagram from the channel, the oldest,
\* and none when the channel is empty; the init task then sends
\* "INIT:READY" when the channel held a datagram and "INIT:FAIL" when it
\* held none, whatever the handoff record and the validation of its
\* manifest were.
C39_ReplyFollowsReceive ==
    LET q == KERNEL_CHANNEL.queue
        \* the payloads the channel holds, oldest first
        held == [i \in 1 .. q.len |->
                    LET m == q.slots[(q.head + i - 1) % MessageSlots(q)].message
                    IN  [k \in 1 .. m.len |-> m.payload[k - 1]]]
        rest == IF boot.sent = <<>> THEN <<>> ELSE Tail(boot.sent)
    IN  (boot.pc = "running" /\ "sent" \in DOMAIN boot)
            => /\ boot.outcome = None => held = boot.sent
               /\ \A outcome \in boot.outcome :
                     /\ outcome.receive_error = None <=> boot.sent # <<>>
                     /\ boot.sent = <<>> => outcome.receive_error = Some("Empty")
                     /\ boot.sent # <<>>
                          => /\ outcome.last_message_len
                                  = Len(Prefix(Head(boot.sent), BOOT_BUFFER_LEN))
                             /\ Prefix(outcome.buf, outcome.last_message_len)
                                  = Prefix(Head(boot.sent), BOOT_BUFFER_LEN)
                     /\ boot.reply_ret = None => held = rest
                     /\ boot.reply_ret # None
                          => /\ boot.reply_ret = Some([ok |-> TRUE])
                             /\ held = Append(rest, IF boot.sent # <<>> THEN INIT_READY
                                                    ELSE INIT_FAIL)

\* C39 witness: no handoff record, so that the manifest is missing, and two
\* datagrams in the channel: the reply "INIT:READY" is queued behind the
\* second datagram.
C39_Witness ==
    /\ boot.pc = "running"
    /\ "sent" \in DOMAIN boot
    /\ Len(boot.sent) = 2
    /\ BOOT_INFO = None
    /\ boot.reply_ret # None
    /\ \E outcome \in boot.outcome :
          outcome.manifest = [services |-> 0, error |-> Some("MissingManifest")]
    /\ KERNEL_CHANNEL.queue.len = 2

(***************************************************************************)
(* BootfsView::find_entry on archives with damaged entries.                *)
(***************************************************************************)

\* C40: find_entry returns the data of the first entry, in archive order,
\* whose name is the name asked for, and the scan ends at the first entry
\* that is truncated or whose name is not UTF-8: nothing behind such an
\* entry is found.  The archive is read here as it is laid out: after the
\* header of 8 bytes, for each of the entries the header counts, the length
\* of the name in 2 bytes, the name, the length of the data in 4 bytes and
\* the data.
C40_FindEntryFirstMatch ==
    (scenario.name = "bootfs" /\ scenario.pc = "done")
        => LET data == scenario.data
               len == Len(data)
               byte(o) == data[o + 1]
               bad == <<[ok |-> FALSE]>>
               RECURSIVE entries(_, _)
               entries(o, remaining) ==
                   IF remaining = 0 THEN <<>>
                   ELSE IF o + 2 > len THEN bad
                   ELSE LET name_len == byte(o) + 256 * byte(o + 1)
                            at_size == o + 2 + name_len
                        IN  IF at_size + 4 > len THEN bad
                            ELSE LET size == byte(at_size) + 256 * byte(at_size + 1)
                                     huge == byte(at_size + 2) # 0 \/ byte(at_size + 3) # 0
                                     at_data == at_size + 4
                                     name == SubSeq(data, o + 3, o + 2 + name_len)
                                 IN  IF huge \/ at_data + size > len THEN bad
                                     ELSE IF str_from_utf8(name) = None THEN bad
                                     ELSE <<[ok |-> TRUE, name |-> name,
                                             data |-> SubSeq(data, at_data + 1,
                                                             at_data + size)]>>
                                            \o entries(at_data + size, remaining - 1)
               header == /\ len >= 8
                         /\ SubSeq(data, 1, 4) = MAGIC
                         /\ byte(4) = 1
                         /\ byte(5) = 0
               es == IF header THEN entries(8, byte(6) + 256 * byte(7)) ELSE <<>>
               stops == {k \in 1 .. Len(es) :
                           ~es[k].ok \/ es[k].name = scenario.target}
           IN  scenario.ret = IF stops # {} /\ es[Min(stops)].ok
                              THEN Some(es[Min(stops)].data)
                              ELSE None

\* C40 witness: two entries announced, the first with the name 0xFF and the
\* second a well-formed "a" with one byte of data: one call of next, and
\* nothing is found.
C40_Witness ==
    /\ scenario.name = "bootfs"
    /\ scenario.pc = "done"
    /\ scenario.data = MAGIC \o <<1, 0, 2, 0>> \o <<1, 0, 255, 1, 0, 0, 0, 7>>
                         \o <<1, 0, 97, 1, 0, 0, 0, 7>>
    /\ scenario.calls = 1
    /\ scenario.ret = None

====
